---- MODULE Spec2Model ----
(***************************************************************************)
(* Model of the polarization control backend: the operation registry and   *)
(* the asynchronous dispatch of hardware commands (src/backend/main.py),   *)
(* the isolated worker (src/backend/zmq_worker.py), the transport client   *)
(* (src/backend/zmq_client.py) and the command history                     *)
(* (src/backend/command_history.py).                                       *)
(*                                                                         *)
(* The host is one asyncio event loop: a task runs without interruption    *)
(* until it suspends.  operation_lock is never held across a suspension,   *)
(* so acquiring it never suspends; the only suspension point of            *)
(* execute_zmq_operation is the await of the worker-pool future.  The      *)
(* variable cur names the task that holds the event loop (0: the loop is   *)
(* free); the registry writes of one uninterrupted section are separate    *)
(* steps of the model, all taken under cur.                                *)
(***************************************************************************)
EXTENDS Integers, Sequences, FiniteSets, TLC

(* ---------------------------- bounds ---------------------------------- *)
\* number of operations dispatched in one run
MaxOps == 2

(* ------------------------ program constants --------------------------- *)
\* ProcessPoolExecutor(max_workers=2)
max_workers == 2
\* cleanup_old_operations: "if len(operation_status) <= 50: return"
CleanupThreshold == 50
\* cleanup_old_operations: "completed_ops[25:]"
KeepCompleted == 25

\* Python None
None == <<>>

\* clock subdivisions per second (datetime.now() has a sub-second part)
USec == 2

\* datetime.isoformat(): the fractional part is omitted when it is zero
isoformat(t) ==
    IF t % USec = 0 THEN <<t \div USec>> ELSE <<t \div USec, t % USec>>

\* Python's ordering of strings / tuples: lexicographic, a proper prefix first
RECURSIVE LexLess(_, _)
LexLess(a, b) ==
    IF b = <<>> THEN FALSE
    ELSE IF a = <<>> THEN TRUE
    ELSE IF Head(a) < Head(b) THEN TRUE
    ELSE IF Head(a) > Head(b) THEN FALSE
    ELSE LexLess(Tail(a), Tail(b))

\* str(x) of a value / of an exception
Str(x) == <<"str", x>>

(* --------------------------- identifiers ------------------------------ *)
\* uuid4 values handed out in a run; their order is the order of the strings
DynIds == 1..MaxOps
\* operations completed before the run starts
OldId(k) == 100 + k
\* numbers of operations a loaded service has completed before the run
PreloadCounts == {49}

(* ------------------------- transport client --------------------------- *)
\* methods of PolarizationZMQClient that end in send_command
SendingMethods ==
    {"send_command", "get_paths", "set_polarization", "calibrate",
     "set_power", "home", "set_pc_to_bell_angles", "get_commands",
     "get_info", "get_all_positions", "get_motor_info", "get_current_path",
     "move_waveplate"}
\* methods that only open a connection
ConnectingMethods == {"_connect", "_get_fresh_connection", "_reconnect"}
ClientMethods == SendingMethods \cup ConnectingMethods \cup {"test_connection"}
\* instance attributes that are not methods (self.client)
ClientDataAttributes == {"client"}
\* names that are no attribute of the client at all
UnknownNames == {"no_such_command"}
CommandNames == ClientMethods \cup ClientDataAttributes \cup UnknownNames

\* what the hardware server does during the call of a dispatched operation
HardwareBehaviours == {"ok", "timeout"}

\* what the environment does during one worker call
\*   connect_fail : Client(ip, port) raises in PolarizationZMQClient.__init__
\*   ok           : the server answers with a JSON object without "error"
\*   error_payload: the server answers {"error": msg}
\*   empty        : empty response
\*   timeout      : the "Timeout" sentinel
\*   bad_json     : a response that is not JSON
\*   send_raises  : send_message raises
Envs == {"connect_fail", "ok", "error_payload", "empty", "timeout",
         "bad_json", "send_raises"}

\* shape of the arguments of a call
\*   valid       : right number and types, values accepted by the method
\*   bad_value   : right types, value refused by the method's own check
\*   bad_arity   : wrong number of arguments
\*   bad_type    : a None where a string is expected
ArgShapes == {"valid", "bad_value", "bad_arity", "bad_type"}

\* send_command: every failure leaves as ZMQClientError, success returns the
\* decoded response
send_command(env) ==
    CASE env = "ok"            -> [raised |-> FALSE, value |-> "response_data"]
      [] env = "error_payload" ->
            [raised |-> TRUE, type |-> "ZMQClientError",
             msg |-> <<"ZMQ communication error: ", "ZMQ command error: ", "msg">>]
      [] env = "empty"         ->
            [raised |-> TRUE, type |-> "ZMQClientError",
             msg |-> <<"ZMQ communication error: ", "Received empty response from ZMQ server">>]
      [] env = "timeout"       ->
            [raised |-> TRUE, type |-> "ZMQClientError",
             msg |-> <<"ZMQ communication error: ", "ZMQ server request timed out - hardware may be unavailable">>]
      [] env = "bad_json"      ->
            [raised |-> TRUE, type |-> "ZMQClientError",
             msg |-> <<"Invalid response format from ZMQ server: ", "response">>]
      [] OTHER                 ->
            [raised |-> TRUE, type |-> "ZMQClientError",
             msg |-> <<"ZMQ communication error: ", "e">>]

\* the methods that check a value before sending
ValueCheckingMethods == {"set_power", "move_waveplate"}
\* the methods that call .lower() on a string argument before sending
LoweringMethods == {"calibrate", "home", "move_waveplate"}

\* method(*args, **kwargs) for a method of the client
call_method(command_name, args, env) ==
    IF args = "bad_arity"
    THEN [raised |-> TRUE, type |-> "TypeError", msg |-> <<"arguments">>]
    ELSE IF command_name \in ValueCheckingMethods /\ args = "bad_value"
    THEN [raised |-> TRUE, type |-> "ValueError", msg |-> <<"must be">>]
    ELSE IF command_name \in LoweringMethods /\ args = "bad_type"
    THEN [raised |-> TRUE, type |-> "AttributeError",
          msg |-> <<"'NoneType' object has no attribute 'lower'">>]
    ELSE IF command_name = "test_connection"
    THEN [raised |-> FALSE,
          value |-> IF send_command(env).raised THEN "False" ELSE "True"]
    ELSE IF command_name \in ConnectingMethods
    THEN [raised |-> FALSE, value |-> "None"]
    ELSE IF command_name = "get_paths" /\ send_command(env).raised
    THEN [raised |-> TRUE, type |-> "ZMQClientError",
          msg |-> <<"Failed to get paths: ">> \o send_command(env).msg]
    ELSE send_command(env)

(* ------------------------ set_power on its own ------------------------ *)
\* how far beyond the ends of [0.0, 1.0] the powers tried reach, in tenths
MaxExcess == 2

\* a Python float: not-a-number, or a number of tenths
NaN == [nan |-> TRUE, tenths |-> 0]
Float(t) == [nan |-> FALSE, tenths |-> t]
\* a <= b and a < b on floats: every comparison with not-a-number is False
float_le(a, b) == ~a.nan /\ ~b.nan /\ a.tenths <= b.tenths
float_lt(a, b) == ~a.nan /\ ~b.nan /\ a.tenths < b.tenths

PowerValues == {Float(t) : t \in (0 - MaxExcess)..(10 + MaxExcess)} \cup {NaN}

\* a range check that refuses what lies below 0.0 or above 1.0
power_not_outside(power) ==
    ~(float_lt(power, Float(0)) \/ float_lt(Float(10), power))

\* 0.0 <= power <= 1.0
power_in_range(power) ==
    float_le(Float(0), power) /\ float_le(power, Float(10))

\* what the hardware server answers once a connection exists
ServerEnvs == Envs \ {"connect_fail"}

\* client.set_power(power): the outcome of the call and the messages it
\* handed to client.send_message
set_power(power, env) ==
    IF ~power_in_range(power)
    THEN [outcome |-> [raised |-> TRUE, type |-> "ValueError",
                       msg |-> <<"Power must be between 0.0 and 1.0">>],
          sent |-> <<>>]
    ELSE [outcome |-> send_command(env),
          sent |-> <<[cmd |-> "set_power", params |-> [power |-> power]]>>]

(* ----------------------- send_command, decoding ----------------------- *)
\* the cmd strings the client's methods pass to send_command
SentCommands == {"test", "info", "set_polarization", "calibrate", "set_power",
                 "home", "set_pc_to_bell_angles", "commands", "positions",
                 "get_motor_info", "get_current_path", "forward", "backward",
                 "goto"}

\* what client.send_message returned, by the features send_command looks at
\*   text   : none (None), blank (empty or whitespace), timeout (the word
\*            "timeout" alone, any case), other
\*   parses : what json.loads makes of it: a dict, a string, a list, a
\*            scalar (number, true, false, null), or not_json (it raises)
\*   mentions_error   : the key "error" of a dict, the element "error" of a
\*            list, the substring "error" of a string or of a text that is
\*            not JSON
\*   mentions_timeout : the lower-cased text contains "timeout"
Responses ==
    [text : {"none", "blank", "timeout"}, parses : {"not_json"},
     mentions_error : {FALSE}, mentions_timeout : {FALSE}]
    \cup
    [text : {"other"}, parses : {"dict", "string", "list", "scalar", "not_json"},
     mentions_error : BOOLEAN, mentions_timeout : BOOLEAN]

\* raise ZMQClientError(f"ZMQ communication error: {e}")
communication_error(detail) ==
    [raised |-> TRUE, type |-> "ZMQClientError",
     msg |-> <<"ZMQ communication error: ">> \o detail]

\* the except json.JSONDecodeError clause; response is bound whenever
\* json.loads raised, so the branch for an unbound response is never taken
decode_error(r) ==
    [raised |-> TRUE, type |-> "ZMQClientError",
     msg |-> IF r.mentions_timeout
             THEN <<"ZMQ server request timed out - hardware may be unavailable">>
             ELSE IF r.mentions_error
             THEN <<"ZMQ server error: ", "response">>
             ELSE <<"Invalid response format from ZMQ server: ", "repr(response)">>]

\* send_command from the return of client.send_message on
decode_response(r) ==
    IF r.text \in {"none", "blank"}
    THEN communication_error(<<"Received empty response from ZMQ server">>)
    ELSE IF r.text = "timeout"
    THEN communication_error(
           <<"ZMQ server request timed out - hardware may be unavailable">>)
    ELSE IF r.parses = "not_json"
    THEN decode_error(r)
    ELSE IF r.parses = "scalar"
    THEN communication_error(<<"argument of type is not iterable">>)
    ELSE IF r.mentions_error
    THEN IF r.parses = "dict"
         THEN communication_error(<<"ZMQ command error: ", "msg">>)
         ELSE communication_error(<<"indices must be integers">>)
    ELSE [raised |-> FALSE, value |-> "response_data"]

(* ------------------------------ worker -------------------------------- *)
\* zmq_worker.execute_zmq_command
execute_zmq_command(command_name, args, env) ==
    IF env = "connect_fail"
    THEN [success |-> FALSE,
          error |-> <<"Failed to connect to ZMQ server: ", "e">>,
          error_type |-> "ZMQClientError"]
    ELSE IF command_name \notin ClientMethods \cup ClientDataAttributes
    THEN [success |-> FALSE,
          error |-> <<"Method '", command_name, "' not found on ZMQ client: ",
                      "has no attribute">>,
          error_type |-> "AttributeError"]
    ELSE IF command_name \in ClientDataAttributes
    THEN [success |-> FALSE,
          error |-> <<"'Client' object is not callable">>,
          error_type |-> "TypeError"]
    ELSE LET r == call_method(command_name, args, env) IN
         IF ~r.raised
         THEN [success |-> TRUE, result |-> r.value]
         ELSE IF r.type = "AttributeError"
         THEN [success |-> FALSE,
               error |-> <<"Method '", command_name,
                           "' not found on ZMQ client: ">> \o r.msg,
               error_type |-> "AttributeError"]
         ELSE [success |-> FALSE, error |-> r.msg, error_type |-> r.type]

(* ---------------------------- HTTP layer ------------------------------ *)
\* the command endpoints of main.py that the model dispatches
Endpoints == {"set_polarization", "calibrate", "waveplate_forward"}
\* a valid party and one that no endpoint and no client method accepts
Parties == {"alice", "eve"}
ValidParties == {"alice", "bob", "source"}
\* the requests clients send
Requests ==
    {[endpoint |-> "set_polarization", party |-> "-"],
     [endpoint |-> "waveplate_forward", party |-> "eve"]}
    \cup [endpoint : {"calibrate"}, party : {"eve"}]

\* the handler's own validation (HTTP 400 when it fails)
passes_validation(req) ==
    IF req.endpoint = "calibrate" THEN req.party \in ValidParties ELSE TRUE

\* the command text stored with the operation
command_text(req) == <<req.endpoint, req.party>>

\* operation_func.__name__
command_name_of(req) ==
    CASE req.endpoint = "set_polarization" -> "set_polarization"
      [] req.endpoint = "calibrate"        -> "calibrate"
      [] OTHER                             -> "move_waveplate"

\* the arguments the handler passes on, as the client method sees them
args_of(req) ==
    IF req.endpoint = "waveplate_forward" /\ req.party \notin ValidParties
    THEN "bad_value" ELSE "valid"

(* ------------------------- operation registry ------------------------- *)
TerminalStatuses == {"completed", "error"}

\* a create_operation that leaves the registration to the background task
create_operation_deferred(reg, operation_id, command, t) == reg

\* main.create_operation
create_operation(reg, operation_id, command, t) ==
    reg @@ (operation_id :>
              [operation_id |-> operation_id,
               status       |-> "pending",
               command      |-> command,
               result       |-> None,
               error        |-> None,
               started_at   |-> isoformat(t),
               completed_at |-> None])

\* an update that stores the running status only
update_running_only(reg, operation_id, status, result, error, t) ==
    IF operation_id \in DOMAIN reg /\ status = "running"
    THEN [reg EXCEPT ![operation_id] = [@ EXCEPT !.status = status]]
    ELSE reg

\* main.update_operation_status
update_operation_status(reg, operation_id, status, result, error, t) ==
    IF operation_id \in DOMAIN reg
    THEN [reg EXCEPT ![operation_id] =
            [@ EXCEPT !.status = status,
                      !.result = IF result # None THEN result ELSE @,
                      !.error  = IF error # None THEN error ELSE @,
                      !.completed_at =
                          IF status \in TerminalStatuses
                          THEN isoformat(t) ELSE @]]
    ELSE reg

\* a collection that forgets the status test
completed_ops_any_status(reg) == DOMAIN reg

\* the entries cleanup_old_operations collects into completed_ops
completed_ops(reg) ==
    {i \in DOMAIN reg :
        reg[i].status \in TerminalStatuses /\ reg[i].completed_at # None}

\* order of the tuples (completed_at, op_id) that completed_ops.sort compares
TupleLess(reg, i, j) ==
    \/ LexLess(reg[i].completed_at, reg[j].completed_at)
    \/ reg[i].completed_at = reg[j].completed_at /\ i < j

\* a sort without reverse=True: the oldest 25 are kept
ops_to_remove_ascending(reg) ==
    {i \in completed_ops(reg) :
        Cardinality({j \in completed_ops(reg) : TupleLess(reg, j, i)})
            >= KeepCompleted}

\* completed_ops.sort(reverse=True)[25:]
ops_to_remove(reg) ==
    {i \in completed_ops(reg) :
        Cardinality({j \in completed_ops(reg) : TupleLess(reg, i, j)})
            >= KeepCompleted}

\* a cleanup that starts one entry later: "if len(operation_status) <= 51"
cleanup_old_operations_late(reg) ==
    IF Cardinality(DOMAIN reg) <= CleanupThreshold + 1
    THEN reg
    ELSE IF Cardinality(completed_ops(reg)) > KeepCompleted
    THEN [i \in DOMAIN reg \ ops_to_remove(reg) |-> reg[i]]
    ELSE reg

\* main.cleanup_old_operations
cleanup_old_operations(reg) ==
    IF Cardinality(DOMAIN reg) <= CleanupThreshold
    THEN reg
    ELSE IF Cardinality(completed_ops(reg)) > KeepCompleted
    THEN [i \in DOMAIN reg \ ops_to_remove(reg) |-> reg[i]]
    ELSE reg

\* main.get_operation_status: what a polling client is answered
get_operation_status(reg, operation_id) ==
    IF operation_id \in DOMAIN reg
    THEN [code |-> 200, data |-> reg[operation_id]]
    ELSE [code |-> 404, data |-> None]

(* --------------------------- command history -------------------------- *)
\* CommandHistoryManager.add_command when it returns: the entry goes to the
\* front of the deque (a failing file append is swallowed by _append_to_file)
add_command(history, command, response, is_error, t) ==
    <<[id        |-> Str(t),
       timestamp |-> isoformat(t),
       command   |-> command,
       response  |-> response,
       isError   |-> is_error]>> \o history

\* how one call of add_command ends: it returns, it returns although the
\* file append failed, or it re-raises what it caught
HistoryOutcomes == {"ok", "io_error", "raise"}

\* "lines[-10:] if len(lines) >= 10 else lines"
LoadedLines == 10

\* lines of the file that are no command entry: text that is not JSON, and
\* JSON that is no object (a number)
GarbageLines == {[garbage |-> "not_json"], [garbage |-> "scalar"]}
is_garbage(line, kind) == "garbage" \in DOMAIN line /\ line.garbage = kind

\* reversed(recent_lines)
reversed(lines) == [k \in 1..Len(lines) |-> lines[Len(lines) + 1 - k]]

\* the loop of _load_history over the lines it was given: an entry goes to
\* the front of the deque, a line that is not JSON is skipped, and a line
\* that holds a number makes the key test raise TypeError, which ends the
\* loading with what the deque holds by then
RECURSIVE load_lines(_, _)
load_lines(deque, lines) ==
    IF lines = <<>> THEN deque
    ELSE IF is_garbage(Head(lines), "scalar") THEN deque
    ELSE IF is_garbage(Head(lines), "not_json")
    THEN load_lines(deque, Tail(lines))
    ELSE load_lines(<<Head(lines)>> \o deque, Tail(lines))

\* CommandHistoryManager._load_history on an empty deque
load_history(lines) ==
    LET recent_lines ==
            IF Len(lines) >= LoadedLines
            THEN SubSeq(lines, Len(lines) - LoadedLines + 1, Len(lines))
            ELSE lines
    IN  load_lines(<<>>, reversed(recent_lines))

\* CommandHistoryManager._append_to_file
append_to_file(lines, command_entry, outcome) ==
    IF outcome = "io_error" THEN lines ELSE Append(lines, command_entry)

\* CommandHistoryManager.get_history(limit)
get_history(history, limit) ==
    IF limit # None /\ limit[1] # 0
    THEN SubSeq(history, 1, IF limit[1] < Len(history)
                            THEN limit[1] ELSE Len(history))
    ELSE history

(* ------------------------------ messages ------------------------------ *)
\* str(e) of the exception add_command re-raises
HistoryFailure == <<"history failure detail">>
\* str(e) of concurrent.futures.process.BrokenProcessPool
BrokenProcessPool == <<"A process in the process pool was terminated abruptly">>

\* ZMQClientError(f"ZMQ subprocess {error_type}: {error_msg}")
subprocess_error(subprocess_result) ==
    <<"ZMQ subprocess ", subprocess_result.error_type, ": ">>
        \o subprocess_result.error

\* error_msg = f"ZMQ Error: {str(e)}"
zmq_error_msg(e) == <<"ZMQ Error: ">> \o e

\* error_msg = f"Unexpected error: {str(e)}"
unexpected_error_msg(e) == <<"Unexpected error: ">> \o e

\* the error execute_zmq_operation stores for a subprocess result: a failed
\* result is raised as ZMQClientError and caught by "except ZMQClientError"
operation_error(subprocess_result) ==
    IF subprocess_result.success THEN None
    ELSE zmq_error_msg(subprocess_error(subprocess_result))

(* -------------------------- telemetry stream -------------------------- *)
\* loop iterations of redis_polling_loop in one run
MaxPolls == 6
\* entries the producer appends to the stream in one run
MaxEntries == 2
\* seconds that pass in one run
MaxClock == 2
\* largest single counter of an entry given to the derivation on its own
MaxCount == 3

\* self.max_consecutive_failures = 5
max_consecutive_failures == 5
\* "(now - self.last_reset_time).total_seconds() > 300"
CooldownSeconds == 300
\* "(datetime.now() - latest_redis_timestamp).total_seconds() < 2.0"
FreshnessSeconds == 2

\* LAST_TIMESTAMP = '0-0': the position before every entry
LAST_TIMESTAMP == 0
\* '$': the "latest" sentinel; entry positions are 1, 2, ...
Latest == -1

\* timedelta.total_seconds() > seconds, for a difference of clock values
total_seconds_above(delta, seconds) == delta > seconds * USec
\* timedelta.total_seconds() < seconds
total_seconds_below(delta, seconds) == delta < seconds * USec

\* what a stream entry holds
\*   trimmed   : isTrim = 1, the prefix 'VV' with integer As, Bs, C
\*   untrimmed : isTrim = 0, the prefix 'VV' with integer As, Bs, C
\*   no_prefix : isTrim = 1, no 'VV'
\*   malformed : isTrim = 1, 'VV' with a counter that int() refuses
EntryKinds == {"trimmed", "untrimmed", "no_prefix", "malformed"}

\* entries like an untrimmed one whose isTrim field holds another falsy value
\* (false, null, the empty string) or is missing
FalsyKinds == {"untrimmed", "false", "null", "empty", "missing"}

\* the isTrim field after decode_dict, by the text of the field: "1", "0",
\* "false" (json.loads gives False), "null" (None), "empty" (no JSON: the
\* string '' is kept), "missing" (the entry has no such field)
isTrim_of(kind) ==
    CASE kind = "untrimmed" -> "0"
      [] kind \in FalsyKinds -> kind
      [] OTHER               -> "1"

\* "counts_data.get('isTrim', 0) == 0": the default for a missing field is 0,
\* False == 0 holds, None == 0 and '' == 0 do not
is_trim_zero(is_trim) == is_trim \in {"0", "false", "missing"}

\* the counters of the entry at a position
CountsOf(id) == [As |-> 100 * id, Bs |-> 200, C |-> 50]

\* the entry the producer appends at a position
Entry(id, kind) ==
    [id         |-> id,
     isTrim     |-> isTrim_of(kind),
     has_prefix |-> kind # "no_prefix",
     numeric    |-> kind # "malformed",
     VV         |-> CountsOf(id)]

\* an xread that answers with the first entry at any other position
xread_any_entry(entries, position, mark) ==
    LET other == {k \in DOMAIN entries : entries[k].id # position}
    IN  IF other = {} THEN None
        ELSE entries[CHOOSE k \in other : \A j \in other : k <= j]

\* an xread that answers with the newest entry after the position
xread_newest(entries, position, mark) ==
    LET after == {k \in DOMAIN entries :
                     IF position = Latest THEN k > mark
                     ELSE entries[k].id > position}
    IN  IF after = {} THEN None
        ELSE entries[CHOOSE k \in after : \A j \in after : k >= j]

\* connection.xread({CHANNEL_COUNTS: position}, count=1, block=100): the first
\* entry after the position; at '$' the first entry appended after the call
\* was issued (mark: the length of the stream at that moment)
xread(entries, position, mark) ==
    LET after == {k \in DOMAIN entries :
                     IF position = Latest THEN k > mark
                     ELSE entries[k].id > position}
    IN  IF after = {} THEN None
        ELSE entries[CHOOSE k \in after : \A j \in after : k <= j]

\* _get_fresh_connection: redis.Redis(...) creates the connection object and
\* its ping is awaited; with the ping answered the object is returned to
\* get_counts_data, with a failing ping the except clause raises
\* RedisClientError and the object is dropped without a call of aclose
get_fresh_connection(behaviour) ==
    IF behaviour = "connected" THEN "open" ELSE "abandoned"

\* finally of get_counts_data: "if connection: await connection.aclose()"
\* (the local name is bound only when _get_fresh_connection returned)
close_connection(conn) == IF conn = "open" THEN "closed" ELSE conn

\* CancelledError raised at the await the polling task is suspended in: in
\* the ping, the object _get_fresh_connection created is dropped; in the
\* xread, the finally of get_counts_data closes the connection; in aclose,
\* the close is interrupted
cancelled_connection(at, conn) ==
    CASE at = "connecting" -> "abandoned"
      [] at = "reading"    -> close_connection(conn)
      [] OTHER             -> conn

\* what the Redis server does during one read
\*   connect_fail : the connection or its ping fails (or exceeds 5 s)
\*   answer       : xread returns within its budget
\*   xread_error  : xread raises
\*   slow         : xread exceeds the overall 5-second budget
ConnectBehaviours == {"connected", "connect_fail"}
ReadBehaviours == {"answer", "xread_error", "slow"}
\* the reads that fail at transport level
TransportFailures == {"connect_fail", "xread_error", "slow"}
\* the failures get_counts_data handles in "except Exception"
CountedFailures == {"connect_fail", "xread_error"}

\* how the awaited xread ends, from what the server does and what it answers
\*   slow          : asyncio.TimeoutError, answered with None
\*   no_data       : "if not messages: return None"
\*   new_data      : the entry's id differs from the position
\*   same_position : it does not
read_outcome_of(behaviour, messages, position) ==
    IF behaviour # "answer" THEN behaviour
    ELSE IF messages = None THEN "no_data"
    ELSE IF messages.id # position THEN "new_data"
    ELSE "same_position"

\* a client that takes an empty answer for a failure
read_raises_when_empty(outcome) == outcome \in {"xread_error", "no_data"}

\* the outcomes get_counts_data handles in "except Exception"
read_raises(outcome) == outcome = "xread_error"

\* a recovery that ignores the cooldown
recovery_due_every_time(failures, reset_time, t) ==
    failures >= max_consecutive_failures

\* _check_recovery_needed: the condition under which the position is reset
recovery_due(failures, reset_time, t) ==
    /\ failures >= max_consecutive_failures
    /\ \/ reset_time = None
       \/ total_seconds_above(t - reset_time[1], CooldownSeconds)

(* ----------------------- telemetry: derived counts -------------------- *)
\* Python floats with one decimal are held as integers in tenths (25.0 is 250)
Tenths == 10

\* greatest common divisor, used to keep the products below within 32 bits
RECURSIVE Gcd(_, _)
Gcd(a, b) == IF b = 0 THEN a ELSE Gcd(b, a % b)

\* the largest m in lo..hi with m * m <= x (lo * lo <= x is given)
RECURSIVE SqrtFloorIn(_, _, _)
SqrtFloorIn(x, lo, hi) ==
    IF lo >= hi THEN lo
    ELSE LET mid == (lo + hi + 1) \div 2 IN
         IF mid * mid <= x THEN SqrtFloorIn(x, mid, hi)
         ELSE SqrtFloorIn(x, lo, mid - 1)

\* floor of the square root
SqrtFloor(x) == SqrtFloorIn(x, 0, 46340)

\* a rounding that sends a value halfway between two integers upwards
round_half_up(half, exact) ==
    IF half % 2 = 0 THEN half \div 2 ELSE half \div 2 + 1

\* round(x): the nearest integer to half / 2 + (0 or more, below 1/2), for a
\* value known to lie in [half / 2, (half + 1) / 2); exact says the value is
\* half / 2 itself.  A value halfway between two integers goes to the even one.
round_half_even(half, exact) ==
    IF half % 2 = 0 THEN half \div 2
    ELSE IF exact /\ (half \div 2) % 2 = 0 THEN half \div 2
    ELSE half \div 2 + 1

\* round(numerator / denominator, 1) in tenths, denominator > 0
round_ratio(numerator, denominator) ==
    LET twice == 2 * Tenths * numerator IN
    round_half_even(twice \div denominator, twice % denominator = 0)

\* round(numerator / (product) ** 0.5, 1) in tenths, product > 0
round_ratio_sqrt(numerator, product) ==
    LET g     == Gcd(numerator * numerator, product)
        num   == (numerator * numerator) \div g
        den   == product \div g
        scale == (2 * Tenths) * (2 * Tenths) * num
        half  == SqrtFloor(scale \div den)
    IN  round_half_even(half, scale % den = 0 /\ half * half = scale \div den)

\* the efficiencies without the tests for zero singles
efficiencies_unguarded(alice_singles, bob_singles, coincidences) ==
    IF bob_singles = 0 \/ alice_singles = 0
    THEN [fault |-> TRUE, alice_efficiency |-> 0, bob_efficiency |-> 0,
          joint_efficiency |-> 0]
    ELSE [fault |-> FALSE,
          alice_efficiency |-> round_ratio(100 * coincidences, bob_singles),
          bob_efficiency   |-> round_ratio(100 * coincidences, alice_singles),
          joint_efficiency |-> round_ratio_sqrt(100 * coincidences,
                                                alice_singles * bob_singles)]

\* get_formatted_counts: "Calculate efficiencies (exact STCounts logic)";
\* fault: a ZeroDivisionError was raised
efficiencies(alice_singles, bob_singles, coincidences) ==
    [fault |-> FALSE,
     alice_efficiency |->
        IF bob_singles > 0
        THEN round_ratio(100 * coincidences, bob_singles) ELSE 0,
     bob_efficiency |->
        IF alice_singles > 0
        THEN round_ratio(100 * coincidences, alice_singles) ELSE 0,
     joint_efficiency |->
        IF alice_singles > 0 /\ bob_singles > 0
        THEN round_ratio_sqrt(100 * coincidences, alice_singles * bob_singles)
        ELSE 0]

\* the dictionary get_formatted_counts builds from the prefix data
counts_result_of(prefix_data) ==
    LET e == efficiencies(prefix_data.As, prefix_data.Bs, prefix_data.C) IN
    [alice_singles    |-> prefix_data.As,
     alice_efficiency |-> e.alice_efficiency,
     bob_singles      |-> prefix_data.Bs,
     bob_efficiency   |-> e.bob_efficiency,
     coincidences     |-> prefix_data.C,
     joint_efficiency |-> e.joint_efficiency]

\* a filter that lets untrimmed entries through
get_formatted_counts_unfiltered(counts_data) ==
    IF ~counts_data.has_prefix
    THEN [raised |-> FALSE, filtered |-> FALSE, value |-> None]
    ELSE IF ~counts_data.numeric
            \/ efficiencies(counts_data.VV.As, counts_data.VV.Bs,
                            counts_data.VV.C).fault
    THEN [raised |-> TRUE, filtered |-> FALSE, value |-> None]
    ELSE [raised |-> FALSE, filtered |-> FALSE,
          value |-> counts_result_of(counts_data.VV)]

\* get_formatted_counts once get_counts_data has returned an entry: None for a
\* filtered entry (filtered_reads is counted) and for a missing prefix, the
\* result dictionary, or RedisClientError for anything raised on the way
get_formatted_counts(counts_data) ==
    IF is_trim_zero(counts_data.isTrim)
    THEN [raised |-> FALSE, filtered |-> TRUE, value |-> None]
    ELSE IF ~counts_data.has_prefix
    THEN [raised |-> FALSE, filtered |-> FALSE, value |-> None]
    ELSE IF ~counts_data.numeric
            \/ efficiencies(counts_data.VV.As, counts_data.VV.Bs,
                            counts_data.VV.C).fault
    THEN [raised |-> TRUE, filtered |-> FALSE, value |-> None]
    ELSE [raised |-> FALSE, filtered |-> FALSE,
          value |-> counts_result_of(counts_data.VV)]

\* a reader that accepts a snapshot of exactly two seconds
get_redis_counts_inclusive(data, timestamp, t) ==
    IF data # None /\ timestamp # None
       /\ ~total_seconds_above(t - timestamp[1], FreshnessSeconds)
    THEN [code |-> 200, success |-> TRUE, data |-> data]
    ELSE [code |-> 200, success |-> FALSE,
          message |-> "No recent counts data available", data |-> None]

\* main.get_redis_counts (redis_client is set once start-up is over)
get_redis_counts(data, timestamp, t) ==
    IF data # None /\ timestamp # None
       /\ total_seconds_below(t - timestamp[1], FreshnessSeconds)
    THEN [code |-> 200, success |-> TRUE, data |-> data]
    ELSE [code |-> 200, success |-> FALSE,
          message |-> "No recent counts data available", data |-> None]

\* a publish that suspends between its two assignments
holds_event_loop_nowhere(position) == FALSE

\* the positions of redis_polling_loop between which it does not suspend:
\* latest_redis_data is assigned, latest_redis_timestamp is not yet
holds_event_loop(position) == position = "publish_time"

(* --------------------------- telemetry loop --------------------------- *)
\* what can be raised into redis_polling_loop at one of its awaits:
\* get_formatted_counts turns every Exception into RedisClientError, and
\* task.cancel() raises CancelledError, which is a BaseException
ExceptionSubclasses == {"RedisClientError"}
LoopRaises == ExceptionSubclasses \cup {"CancelledError"}

\* a loop without a handler: whatever is raised ends it
polling_loop_unprotected(raised) == "ended"

\* redis_polling_loop: "except Exception" logs, sleeps and goes round again;
\* anything else leaves "while True" and ends the task
polling_loop_except(raised) ==
    IF raised \in ExceptionSubclasses THEN "sleeping" ELSE "ended"

(* ------------------------------- state -------------------------------- *)
VARIABLES
    operation_status,   \* main.operation_status: id -> operation record
    pc,                 \* position of the task of each dispatched operation
    request,            \* the request each operation was dispatched for
    operation_info,     \* execute_zmq_operation's local copy (its command)
    exc,                \* the exception a task is handling (str(e))
    escaping,           \* tasks whose except block raised
    task_exception,     \* tasks that ended with an exception
    not_found,          \* tasks that took the "not found" branch
    cur,                \* the task that holds the event loop, 0 if none
    now,                \* datetime.now(): the steps of the event loop take
                        \* no time, a hardware call takes one unit
    queue,              \* calls submitted to the pool, not yet on a worker
    running_calls,      \* calls on a worker process
    hung,               \* calls on a worker that never return
    future,             \* the pool future each task awaits
    pool_broken,        \* the pool lost a worker process
    command_history,    \* CommandHistoryManager.command_history
    response,           \* what the dispatching endpoint returned
    log,                \* exception details written to the log
    worker_call,        \* a direct call of execute_zmq_command: its inputs
    worker_result,      \* ... and the dictionary it returned
    gc_before,          \* the registry a direct cleanup run started from
    stream,             \* the Redis stream 'monitor:counts'
    last_timestamp,     \* RedisCountsClient.last_timestamp: the read position
    consecutive_failures,
    failed_reads,
    total_reads,
    filtered_reads,
    last_reset_time,    \* None or <<clock value of the last recovery>>
    latest_redis_data,  \* main.latest_redis_data: the published snapshot
    latest_redis_timestamp, \* None or <<clock value of the publication>>
    poll_pc,            \* position of redis_polling_loop
    xread_from,         \* the position the xread in flight was issued from
    xread_mark,         \* the length of the stream when it was issued
    counts_data,        \* the entry get_counts_data returned in this iteration
    iterations,         \* iterations of redis_polling_loop so far
    read_outcome,       \* how the read of this iteration went
    delivered,          \* positions get_counts_data has returned as new data
    cursor_forced,      \* a recovery or a manual reset has set the position
    published,          \* the (data, timestamp) pairs the loop has published
    reader_view,        \* what the last GET /redis/counts read
    counts_response,    \* ... and what it answered
    counts_call,        \* a direct derivation: its counters
    counts_result,      \* ... and its result dictionary
    connection,         \* the Redis connection made for the read of this
                        \* iteration: none, open, closed, or abandoned
                        \* (created, never closed, no reference left)
    lifespan_pc,        \* position of lifespan: serving, or a shutdown step
    history_file,       \* lines of command_history.jsonl, oldest first; followed
                        \* where the history manager runs on its own (no step
                        \* of a serving process reads the file back)
    history_calls       \* add_command calls made on the manager on its own

vars == <<operation_status, pc, request, operation_info, exc, escaping,
          task_exception, not_found, cur, now, queue, running_calls, hung,
          future, pool_broken, command_history, response, log,
          worker_call, worker_result, gc_before, stream, last_timestamp,
          consecutive_failures, failed_reads, total_reads, filtered_reads,
          last_reset_time, latest_redis_data, latest_redis_timestamp,
          poll_pc, xread_from, xread_mark, counts_data, iterations,
          read_outcome, delivered, cursor_forced, published, reader_view,
          counts_response, counts_call, counts_result, connection,
          lifespan_pc,
          history_file, history_calls>>

\* the telemetry consumer, its stream and its readers
telemetry == <<stream, last_timestamp, consecutive_failures, failed_reads,
               total_reads, filtered_reads, last_reset_time,
               latest_redis_data, latest_redis_timestamp, poll_pc, xread_from,
               xread_mark, counts_data, iterations, read_outcome, delivered,
               cursor_forced, published, reader_view, counts_response,
               counts_call, counts_result, connection>>

\* the variables of the direct calls and of the telemetry consumer, untouched
\* by the steps of the dispatch tasks
harness == <<worker_call, worker_result, gc_before, telemetry, lifespan_pc,
             history_file, history_calls>>

\* the dispatch tasks, the pool and the direct calls, untouched by the steps
\* of the telemetry consumer
orchestration == <<operation_status, pc, request, operation_info, exc,
                   escaping, task_exception, not_found, cur, queue,
                   running_calls, hung, future, pool_broken, command_history,
                   response, log, worker_call, worker_result, gc_before,
                   lifespan_pc, history_file,
                   history_calls>>

\* the clock value every run starts from
BootTime == 25

\* completion time of the k-th operation completed before the run
OldTime(k) == (k + 1) \div 2

\* the record of the k-th operation completed before the run
OldOperation(k) ==
    [operation_id |-> OldId(k),
     status       |-> IF k % 3 = 0 THEN "error" ELSE "completed",
     command      |-> <<"set_polarization", "-">>,
     result       |-> IF k % 3 = 0 THEN None ELSE Str("response_data"),
     error        |-> IF k % 3 = 0
                      THEN zmq_error_msg(subprocess_error(
                               execute_zmq_command("set_polarization",
                                                   "valid", "timeout")))
                      ELSE None,
     started_at   |-> isoformat(OldTime(k)),
     completed_at |-> isoformat(OldTime(k))]

\* the history entry of the k-th operation completed before the run
OldHistoryEntry(k) ==
    [id        |-> Str(OldTime(k)),
     timestamp |-> isoformat(OldTime(k)),
     command   |-> OldOperation(k).command,
     response  |-> IF k % 3 = 0 THEN OldOperation(k).error
                   ELSE OldOperation(k).result,
     isError   |-> (k % 3 = 0)]

\* no operation dispatched, no call in the pool
TasksIdle ==
    /\ pc = [i \in DynIds |-> "none"]
    /\ request = [i \in DynIds |-> None]
    /\ operation_info = [i \in DynIds |-> None]
    /\ exc = [i \in DynIds |-> None]
    /\ escaping = {}
    /\ task_exception = {}
    /\ not_found = {}
    /\ cur = 0
    /\ now = BootTime
    /\ queue = <<>>
    /\ running_calls = {}
    /\ hung = {}
    /\ future = [i \in DynIds |-> [state |-> "none"]]
    /\ pool_broken = FALSE
    /\ response = [i \in DynIds |-> None]
    /\ log = {}
    /\ lifespan_pc = "serving"

\* the telemetry consumer after start-up: nothing read, nothing published
ConsumerFresh ==
    /\ stream = <<>>
    /\ last_timestamp = LAST_TIMESTAMP
    /\ consecutive_failures = 0
    /\ failed_reads = 0
    /\ total_reads = 0
    /\ filtered_reads = 0
    /\ last_reset_time = None
    /\ latest_redis_data = None
    /\ latest_redis_timestamp = None
    /\ poll_pc = "sleeping"
    /\ xread_from = LAST_TIMESTAMP
    /\ xread_mark = 0
    /\ counts_data = None
    /\ iterations = 0
    /\ read_outcome = "none"
    /\ delivered = <<>>
    /\ cursor_forced = FALSE
    /\ published = {}
    /\ reader_view = None
    /\ counts_response = None
    /\ connection = "none"

TelemetryIdle ==
    /\ ConsumerFresh
    /\ counts_call = None
    /\ counts_result = None

\* a service that has completed n operations and is idle
InitAfter(n) ==
    /\ operation_status = [i \in {OldId(k) : k \in 1..n} |-> OldOperation(i - 100)]
    /\ command_history = [k \in 1..n |-> OldHistoryEntry(n + 1 - k)]
    /\ TasksIdle
    /\ TelemetryIdle
    /\ worker_call = None
    /\ worker_result = None
    /\ gc_before = None
    /\ history_file = <<>>
    /\ history_calls = 0

\* the service after start-up
Init == InitAfter(0)

\* the service after it has run for a while
InitLoaded == \E n \in PreloadCounts : InitAfter(n)

\* a pool of a single worker process
has_free_worker_single(calls) == Cardinality(calls) < max_workers - 1

\* ProcessPoolExecutor(max_workers=2): a worker process is free
has_free_worker(calls) == Cardinality(calls) < max_workers

(* ------------------------------ actions ------------------------------- *)
\* a command endpoint (set_polarization, calibrate, move_waveplate_forward):
\* validate, create_operation, asyncio.create_task, return
Dispatch(i, req) ==
    /\ cur = 0
    /\ pc[i] = "none"
    /\ \A j \in DynIds : j < i => pc[j] # "none"
    /\ passes_validation(req)
    /\ operation_status' = create_operation(operation_status, i,
                                            command_text(req), now)
    /\ pc' = [pc EXCEPT ![i] = "scheduled"]
    /\ request' = [request EXCEPT ![i] = req]
    /\ response' = [response EXCEPT ![i] =
                        [success |-> TRUE, operation_id |-> i,
                         status |-> "pending"]]
    /\ UNCHANGED <<operation_info, exc, escaping, task_exception, not_found,
                   cur, now, queue, running_calls, hung, future, pool_broken,
                   command_history, log>>
    /\ UNCHANGED harness

\* execute_zmq_operation up to its await: look the operation up, mark it
\* running, submit the call to the pool
TaskStart(i) ==
    /\ cur = 0
    /\ pc[i] = "scheduled"
    /\ IF i \notin DOMAIN operation_status
       THEN /\ not_found' = not_found \cup {i}
            /\ pc' = [pc EXCEPT ![i] = "cleanup"]
            /\ cur' = i
            /\ UNCHANGED <<operation_status, operation_info, exc, queue,
                           future>>
       ELSE /\ operation_info' =
                    [operation_info EXCEPT ![i] = operation_status[i].command]
            /\ operation_status' =
                    update_operation_status(operation_status, i, "running",
                                            None, None, now)
            /\ UNCHANGED not_found
            /\ IF pool_broken
               THEN /\ exc' = [exc EXCEPT ![i] = BrokenProcessPool]
                    /\ pc' = [pc EXCEPT ![i] = "exc"]
                    /\ cur' = i
                    /\ UNCHANGED <<queue, future>>
               ELSE /\ queue' = Append(queue, i)
                    /\ future' = [future EXCEPT ![i] = [state |-> "pending"]]
                    /\ pc' = [pc EXCEPT ![i] = "awaiting"]
                    /\ UNCHANGED <<exc, cur>>
    /\ UNCHANGED <<request, escaping, task_exception, now, running_calls,
                   hung, pool_broken, command_history, response, log>>
    /\ UNCHANGED harness

\* a free worker process takes the next submitted call; the hardware call it
\* makes returns some time or never
WorkerStart(hangs) ==
    /\ queue # <<>>
    /\ ~pool_broken
    /\ has_free_worker(running_calls)
    /\ running_calls' = running_calls \cup {Head(queue)}
    /\ hung' = IF hangs THEN hung \cup {Head(queue)} ELSE hung
    /\ queue' = Tail(queue)
    /\ UNCHANGED <<operation_status, pc, request, operation_info, exc,
                   escaping, task_exception, not_found, cur, now, future,
                   pool_broken, command_history, response, log>>
    /\ UNCHANGED harness

\* execute_zmq_command returns in the worker; its dictionary is the result
\* of the future
WorkerFinish(i, env) ==
    /\ i \in running_calls \ hung
    /\ running_calls' = running_calls \ {i}
    /\ future' = [future EXCEPT ![i] =
                    [state |-> "result",
                     value |-> execute_zmq_command(command_name_of(request[i]),
                                                   args_of(request[i]), env)]]
    /\ now' = now + 1
    /\ UNCHANGED <<operation_status, pc, request, operation_info, exc,
                   escaping, task_exception, not_found, cur, queue, hung,
                   pool_broken, command_history, response, log>>
    /\ UNCHANGED harness

\* a worker process dies: the pool is broken, every call in flight fails with
\* BrokenProcessPool and so does every later submission
WorkerCrash(i) ==
    /\ i \in running_calls
    /\ pool_broken' = TRUE
    /\ future' = [j \in DynIds |->
                    IF future[j].state = "pending"
                    THEN [state |-> "exception", value |-> BrokenProcessPool]
                    ELSE future[j]]
    /\ queue' = <<>>
    /\ running_calls' = {}
    /\ hung' = {}
    /\ now' = now + 1
    /\ UNCHANGED <<operation_status, pc, request, operation_info, exc,
                   escaping, task_exception, not_found, cur,
                   command_history, response, log>>
    /\ UNCHANGED harness

\* execute_zmq_operation resumes with the outcome of the future: the first
\* registry write after the await
TaskResume(i) ==
    /\ cur = 0
    /\ pc[i] = "awaiting"
    /\ future[i].state \in {"result", "exception"}
    /\ cur' = i
    /\ IF future[i].state = "exception"
       THEN /\ exc' = [exc EXCEPT ![i] = future[i].value]
            /\ pc' = [pc EXCEPT ![i] = "exc"]
            /\ UNCHANGED operation_status
       ELSE IF ~future[i].value.success
       THEN /\ exc' = [exc EXCEPT ![i] = subprocess_error(future[i].value)]
            /\ pc' = [pc EXCEPT ![i] = "zmq"]
            /\ UNCHANGED operation_status
       ELSE /\ operation_status' =
                    update_operation_status(operation_status, i, "completed",
                                            Str(future[i].value.result),
                                            None, now)
            /\ pc' = [pc EXCEPT ![i] = "hist_ok"]
            /\ UNCHANGED exc
    /\ UNCHANGED <<request, operation_info, escaping, task_exception,
                   not_found, now, queue, running_calls, hung, future,
                   pool_broken, command_history, response, log>>
    /\ UNCHANGED harness

\* command_history_manager.add_command after the completed update
HistoryOk(i, outcome) ==
    /\ cur = i
    /\ pc[i] = "hist_ok"
    /\ IF outcome = "raise"
       THEN /\ exc' = [exc EXCEPT ![i] = HistoryFailure]
            /\ pc' = [pc EXCEPT ![i] = "exc"]
            /\ UNCHANGED command_history
       ELSE /\ command_history' =
                    add_command(command_history, operation_info[i],
                                Str(future[i].value.result), FALSE, now)
            /\ pc' = [pc EXCEPT ![i] = "cleanup"]
            /\ UNCHANGED exc
    /\ UNCHANGED <<operation_status, request, operation_info, escaping,
                   task_exception, not_found, cur, now, queue, running_calls,
                   hung, future, pool_broken, response, log>>
    /\ UNCHANGED harness

\* except ZMQClientError: store the error
ExceptZMQ(i) ==
    /\ cur = i
    /\ pc[i] = "zmq"
    /\ operation_status' =
            update_operation_status(operation_status, i, "error", None,
                                    zmq_error_msg(exc[i]), now)
    /\ exc' = [exc EXCEPT ![i] = zmq_error_msg(exc[i])]
    /\ pc' = [pc EXCEPT ![i] = "hist_err"]
    /\ UNCHANGED <<request, operation_info, escaping, task_exception,
                   not_found, cur, now, queue, running_calls, hung, future,
                   pool_broken, command_history, response, log>>
    /\ UNCHANGED harness

\* except Exception: log the exception, store the error
ExceptUnexpected(i) ==
    /\ cur = i
    /\ pc[i] = "exc"
    /\ log' = log \cup {exc[i]}
    /\ operation_status' =
            update_operation_status(operation_status, i, "error", None,
                                    unexpected_error_msg(exc[i]), now)
    /\ exc' = [exc EXCEPT ![i] = unexpected_error_msg(exc[i])]
    /\ pc' = [pc EXCEPT ![i] = "hist_err"]
    /\ UNCHANGED <<request, operation_info, escaping, task_exception,
                   not_found, cur, now, queue, running_calls, hung, future,
                   pool_broken, command_history, response>>
    /\ UNCHANGED harness

\* command_history_manager.add_command inside an except block
HistoryErr(i, outcome) ==
    /\ cur = i
    /\ pc[i] = "hist_err"
    /\ IF outcome = "raise"
       THEN /\ escaping' = escaping \cup {i}
            /\ UNCHANGED command_history
       ELSE /\ command_history' =
                    add_command(command_history,
                                IF operation_info[i] # None
                                THEN operation_info[i] ELSE <<"Unknown">>,
                                exc[i], TRUE, now)
            /\ UNCHANGED escaping
    /\ pc' = [pc EXCEPT ![i] = "cleanup"]
    /\ UNCHANGED <<operation_status, request, operation_info, exc,
                   task_exception, not_found, cur, now, queue, running_calls,
                   hung, future, pool_broken, response, log>>
    /\ UNCHANGED harness

\* finally: cleanup_old_operations, then the task ends
Cleanup(i) ==
    /\ cur = i
    /\ pc[i] = "cleanup"
    /\ operation_status' = cleanup_old_operations(operation_status)
    /\ task_exception' =
            IF i \in escaping THEN task_exception \cup {i} ELSE task_exception
    /\ pc' = [pc EXCEPT ![i] = "done"]
    /\ cur' = 0
    /\ request' = [request EXCEPT ![i] = None]
    /\ operation_info' = [operation_info EXCEPT ![i] = None]
    /\ exc' = [exc EXCEPT ![i] = None]
    /\ future' = [future EXCEPT ![i] = [state |-> "none"]]
    /\ escaping' = escaping \ {i}
    /\ UNCHANGED <<not_found, now, queue, running_calls, hung, pool_broken,
                   command_history, response, log>>
    /\ UNCHANGED harness

Next ==
    \/ \E i \in DynIds, req \in Requests : Dispatch(i, req)
    \/ \E i \in DynIds : TaskStart(i)
    \/ \E hangs \in BOOLEAN : WorkerStart(hangs)
    \/ \E i \in DynIds, env \in HardwareBehaviours : WorkerFinish(i, env)
    \/ \E i \in DynIds : WorkerCrash(i)
    \/ \E i \in DynIds : TaskResume(i)
    \/ \E i \in DynIds, outcome \in HistoryOutcomes : HistoryOk(i, outcome)
    \/ \E i \in DynIds : ExceptZMQ(i)
    \/ \E i \in DynIds : ExceptUnexpected(i)
    \/ \E i \in DynIds, outcome \in HistoryOutcomes : HistoryErr(i, outcome)
    \/ \E i \in DynIds : Cleanup(i)

Spec == Init /\ [][Next]_vars

SpecLoaded == InitLoaded /\ [][Next]_vars

(* ---------------------- a service with a busy worker ------------------- *)
\* the operation dispatched before the run: its task has stored running and
\* waits for its call, which occupies one worker process for the whole run
BusyOperation ==
    [operation_id |-> OldId(1),
     status       |-> "running",
     command      |-> <<"set_polarization", "-">>,
     result       |-> None,
     error        |-> None,
     started_at   |-> isoformat(OldTime(1)),
     completed_at |-> None]

InitBusy ==
    /\ operation_status = (OldId(1) :> BusyOperation)
    /\ command_history = <<>>
    /\ pc = [i \in DynIds |-> "none"]
    /\ request = [i \in DynIds |-> None]
    /\ operation_info = [i \in DynIds |-> None]
    /\ exc = [i \in DynIds |-> None]
    /\ escaping = {}
    /\ task_exception = {}
    /\ not_found = {}
    /\ cur = 0
    /\ now = BootTime
    /\ queue = <<>>
    /\ running_calls = {OldId(1)}
    /\ hung = {}
    /\ future = [i \in DynIds |-> [state |-> "none"]]
    /\ pool_broken = FALSE
    /\ response = [i \in DynIds |-> None]
    /\ log = {}
    /\ lifespan_pc = "serving"
    /\ TelemetryIdle
    /\ worker_call = None
    /\ worker_result = None
    /\ gc_before = None
    /\ history_file = <<>>
    /\ history_calls = 0

SpecBusy == InitBusy /\ [][Next]_vars

(* ------------------------- fair scheduling ---------------------------- *)
\* the steps of the task that holds the event loop, up to the end of the task
RunToEnd(i) ==
    \/ \E o \in HistoryOutcomes : HistoryOk(i, o)
    \/ ExceptZMQ(i)
    \/ ExceptUnexpected(i)
    \/ \E o \in HistoryOutcomes : HistoryErr(i, o)
    \/ Cleanup(i)

\* what asyncio and the pool guarantee: a scheduled task is started, a free
\* worker takes the next call, a hardware call that is not stuck returns, a
\* task whose future is done is resumed and runs to its end
Fairness ==
    /\ \A i \in DynIds : WF_vars(TaskStart(i))
    /\ WF_vars(\E hangs \in BOOLEAN : WorkerStart(hangs))
    /\ \A i \in DynIds : WF_vars(\E env \in HardwareBehaviours : WorkerFinish(i, env))
    /\ \A i \in DynIds : WF_vars(TaskResume(i))
    /\ WF_vars(\E i \in DynIds : RunToEnd(i))

FairSpec == Init /\ [][Next]_vars /\ Fairness

(* ------------- execute_zmq_command called on its own ------------------ *)
InitWorker ==
    /\ \E c \in [command_name : CommandNames, args : ArgShapes, env : Envs] :
          /\ operation_status = <<>>
          /\ command_history = <<>>
          /\ TasksIdle
          /\ TelemetryIdle
          /\ worker_call = c
          /\ worker_result = None
          /\ gc_before = None
          /\ history_file = <<>>
          /\ history_calls = 0

\* one call of execute_zmq_command in a worker process
WorkerCall ==
    /\ worker_call # None
    /\ worker_result = None
    /\ worker_result' = execute_zmq_command(worker_call.command_name,
                                            worker_call.args, worker_call.env)
    /\ UNCHANGED <<operation_status, pc, request, operation_info, exc,
                   escaping, task_exception, not_found, cur, now, queue,
                   running_calls, hung, future, pool_broken, command_history,
                   response, log, worker_call, gc_before>>
    /\ UNCHANGED <<telemetry, lifespan_pc, history_file, history_calls>>

SpecWorker == InitWorker /\ [][WorkerCall]_vars

(* -------------------- set_power called on its own --------------------- *)
InitPower ==
    /\ \E c \in [power : PowerValues, env : ServerEnvs] :
          /\ operation_status = <<>>
          /\ command_history = <<>>
          /\ TasksIdle
          /\ TelemetryIdle
          /\ worker_call = c
          /\ worker_result = None
          /\ gc_before = None
          /\ history_file = <<>>
          /\ history_calls = 0

\* one call of client.set_power
SetPowerCall ==
    /\ worker_call # None
    /\ worker_result = None
    /\ worker_result' = set_power(worker_call.power, worker_call.env)
    /\ UNCHANGED <<operation_status, pc, request, operation_info, exc,
                   escaping, task_exception, not_found, cur, now, queue,
                   running_calls, hung, future, pool_broken, command_history,
                   response, log, worker_call, gc_before>>
    /\ UNCHANGED <<telemetry, lifespan_pc, history_file, history_calls>>

SpecPower == InitPower /\ [][SetPowerCall]_vars

(* ------------------- send_command called on its own ------------------- *)
InitSend ==
    /\ \E c \in [cmd : SentCommands, response : Responses] :
          /\ operation_status = <<>>
          /\ command_history = <<>>
          /\ TasksIdle
          /\ TelemetryIdle
          /\ worker_call = c
          /\ worker_result = None
          /\ gc_before = None
          /\ history_file = <<>>
          /\ history_calls = 0

\* one call of client.send_command whose send_message returns
SendCommandCall ==
    /\ worker_call # None
    /\ worker_result = None
    /\ worker_result' = decode_response(worker_call.response)
    /\ UNCHANGED <<operation_status, pc, request, operation_info, exc,
                   escaping, task_exception, not_found, cur, now, queue,
                   running_calls, hung, future, pool_broken, command_history,
                   response, log, worker_call, gc_before>>
    /\ UNCHANGED <<telemetry, lifespan_pc, history_file, history_calls>>

SpecSend == InitSend /\ [][SendCommandCall]_vars

(* ------------- CommandHistoryManager running on its own --------------- *)
\* add_command calls in one run
MaxAdds == 2
\* lines earlier runs have left in the file
MaxOldLines == 11

\* the file earlier runs have written: n entries in the order they were
\* appended, the g-th line (if any) replaced by something that is no entry
OldFile(n, g, garbage) ==
    [k \in 1..n |-> IF k = g THEN garbage ELSE OldHistoryEntry(k)]

InitialFiles ==
    {OldFile(n, g, garbage) :
        n \in 0..MaxOldLines, g \in 0..MaxOldLines, garbage \in GarbageLines}

\* the manager constructed at start-up: the deque is what _load_history read
InitHistory ==
    /\ \E lines \in InitialFiles :
          /\ history_file = lines
          /\ command_history = load_history(lines)
    /\ operation_status = <<>>
    /\ TasksIdle
    /\ TelemetryIdle
    /\ worker_call = None
    /\ worker_result = None
    /\ gc_before = None
    /\ history_calls = 0

\* add_command("set_polarization", ...) returns
HistoryAdd(outcome) ==
    /\ history_calls < MaxAdds
    /\ history_calls' = history_calls + 1
    /\ command_history' =
            add_command(command_history, <<"set_polarization", "-">>,
                        Str("response_data"), FALSE, now)
    /\ history_file' =
            append_to_file(history_file, Head(command_history'), outcome)
    /\ UNCHANGED <<operation_status, pc, request, operation_info, exc,
                   escaping, task_exception, not_found, cur, now, queue,
                   running_calls, hung, future, pool_broken, response, log,
                   worker_call, worker_result, gc_before, telemetry,
                   lifespan_pc>>

\* the process ends and a new one constructs the manager from the file
HistoryRestart ==
    /\ command_history' = load_history(history_file)
    /\ UNCHANGED <<operation_status, pc, request, operation_info, exc,
                   escaping, task_exception, not_found, cur, now, queue,
                   running_calls, hung, future, pool_broken, response, log,
                   worker_call, worker_result, gc_before, telemetry,
                   lifespan_pc, history_file, history_calls>>

\* CommandHistoryManager.clear_history
HistoryClear ==
    /\ command_history' = <<>>
    /\ history_file' = <<>>
    /\ UNCHANGED <<operation_status, pc, request, operation_info, exc,
                   escaping, task_exception, not_found, cur, now, queue,
                   running_calls, hung, future, pool_broken, response, log,
                   worker_call, worker_result, gc_before, telemetry,
                   lifespan_pc, history_calls>>

\* the clock advances by one subdivision
HistoryTick ==
    /\ now < BootTime + MaxClock * USec
    /\ now' = now + 1
    /\ UNCHANGED <<operation_status, pc, request, operation_info, exc,
                   escaping, task_exception, not_found, cur, queue,
                   running_calls, hung, future, pool_broken, command_history,
                   response, log, worker_call, worker_result, gc_before,
                   telemetry, lifespan_pc, history_file, history_calls>>

NextHistory ==
    \/ HistoryAdd("ok")
    \/ HistoryAdd("io_error")
    \/ HistoryRestart
    \/ HistoryClear
    \/ HistoryTick

SpecHistory == InitHistory /\ [][NextHistory]_vars

(* ------------- cleanup_old_operations called on its own --------------- *)
\* numbers of terminal and of pending/running entries the registry holds
GCTerminalCounts == 22..28
GCActiveCounts == 22..28

\* the k-th of n terminal entries: completion times pairwise equal or all
\* different, identifiers ascending or descending with the completion time
GCTerminalId(k, n, rev) == IF rev THEN OldId(n + 1 - k) ELSE OldId(k)
GCTerminal(k, n, ties, rev) ==
    [OldOperation(k) EXCEPT
        !.operation_id = GCTerminalId(k, n, rev),
        !.started_at   = isoformat(IF ties THEN OldTime(k) ELSE k),
        !.completed_at = isoformat(IF ties THEN OldTime(k) ELSE k)]

\* the k-th entry of an operation still in flight
GCActiveId(k) == 200 + k
GCActive(k) ==
    [operation_id |-> GCActiveId(k),
     status       |-> IF k % 2 = 0 THEN "running" ELSE "pending",
     command      |-> <<"set_polarization", "-">>,
     result       |-> None,
     error        |-> None,
     started_at   |-> isoformat(k),
     completed_at |-> None]

GCRegistry(n, m, ties, rev) ==
    [i \in {GCTerminalId(k, n, rev) : k \in 1..n} \cup {GCActiveId(k) : k \in 1..m} |->
        IF i >= GCActiveId(1)
        THEN GCActive(i - 200)
        ELSE GCTerminal(IF rev THEN n + 1 - (i - 100) ELSE i - 100, n, ties, rev)]

InitGC ==
    \E n \in GCTerminalCounts, m \in GCActiveCounts, ties \in BOOLEAN, rev \in BOOLEAN :
        /\ operation_status = GCRegistry(n, m, ties, rev)
        /\ command_history = <<>>
        /\ TasksIdle
        /\ TelemetryIdle
        /\ worker_call = None
        /\ worker_result = None
        /\ gc_before = None
        /\ history_file = <<>>
        /\ history_calls = 0

\* one run of cleanup_old_operations
CleanupRun ==
    /\ gc_before = None
    /\ history_file = <<>>
    /\ history_calls = 0
    /\ gc_before' = operation_status
    /\ operation_status' = cleanup_old_operations(operation_status)
    /\ UNCHANGED <<pc, request, operation_info, exc, escaping, task_exception,
                   not_found, cur, now, queue, running_calls, hung, future,
                   pool_broken, command_history, response, log, worker_call,
                   worker_result>>
    /\ UNCHANGED <<telemetry, lifespan_pc, history_file, history_calls>>

SpecGC == InitGC /\ [][CleanupRun]_vars

(* --------------------- telemetry consumer and readers ----------------- *)
\* the client recovered once and has been running for 299 seconds since (its
\* counters are those of the moment of the recovery)
RecoveredAt == BootTime - (CooldownSeconds - 1) * USec

\* the consumer after it has recovered once and nothing else happened since
ConsumerRecovered ==
    /\ stream = <<>>
    /\ last_timestamp = Latest
    /\ consecutive_failures = 0
    /\ failed_reads = max_consecutive_failures
    /\ total_reads = max_consecutive_failures
    /\ filtered_reads = 0
    /\ last_reset_time = <<RecoveredAt>>
    /\ latest_redis_data = None
    /\ latest_redis_timestamp = None
    /\ poll_pc = "sleeping"
    /\ xread_from = LAST_TIMESTAMP
    /\ xread_mark = 0
    /\ counts_data = None
    /\ iterations = 0
    /\ read_outcome = "none"
    /\ delivered = <<>>
    /\ cursor_forced = TRUE
    /\ published = {}
    /\ reader_view = None
    /\ counts_response = None
    /\ connection = "none"

\* the service with its telemetry consumer, freshly started or recovered once
InitTelemetry ==
    /\ operation_status = <<>>
    /\ command_history = <<>>
    /\ TasksIdle
    /\ worker_call = None
    /\ worker_result = None
    /\ gc_before = None
    /\ history_file = <<>>
    /\ history_calls = 0
    /\ (ConsumerFresh \/ ConsumerRecovered)
    /\ counts_call = None
    /\ counts_result = None

\* a failure branch whose recovery leaves the failure counter running
ReadFailedKeepsCounting ==
    /\ failed_reads' = failed_reads + 1
    /\ consecutive_failures' = consecutive_failures + 1
    /\ IF recovery_due(consecutive_failures + 1, last_reset_time, now)
       THEN /\ last_timestamp' = Latest
            /\ last_reset_time' = <<now>>
            /\ cursor_forced' = TRUE
       ELSE UNCHANGED <<last_timestamp, last_reset_time, cursor_forced>>

\* the "except Exception" branch of get_counts_data: count the failure and
\* evaluate the recovery policy
ReadFailed ==
    /\ failed_reads' = failed_reads + 1
    /\ IF recovery_due(consecutive_failures + 1, last_reset_time, now)
       THEN /\ last_timestamp' = Latest
            /\ last_reset_time' = <<now>>
            /\ consecutive_failures' = 0
            /\ cursor_forced' = TRUE
       ELSE /\ consecutive_failures' = consecutive_failures + 1
            /\ UNCHANGED <<last_timestamp, last_reset_time, cursor_forced>>

\* redis_polling_loop wakes up and calls get_formatted_counts, which calls
\* get_counts_data: total_reads is counted, the connection is awaited
PollStart ==
    /\ poll_pc = "sleeping"
    /\ iterations < MaxPolls
    /\ iterations' = iterations + 1
    /\ total_reads' = total_reads + 1
    /\ counts_data' = None
    /\ read_outcome' = "none"
    /\ connection' = "none"
    /\ poll_pc' = "connecting"
    /\ UNCHANGED <<stream, last_timestamp, consecutive_failures, failed_reads,
                   filtered_reads, last_reset_time, latest_redis_data,
                   latest_redis_timestamp, xread_from, xread_mark, delivered,
                   cursor_forced, published, reader_view, counts_response,
                   counts_call, counts_result>>
    /\ UNCHANGED <<orchestration, now>>

\* _get_fresh_connection returns or raises; with a connection the xread is
\* issued from the current position
Connect(behaviour) ==
    /\ poll_pc = "connecting"
    /\ read_outcome' = behaviour
    /\ connection' = get_fresh_connection(behaviour)
    /\ IF behaviour = "connected"
       THEN /\ xread_from' = last_timestamp
            /\ xread_mark' = Len(stream)
            /\ poll_pc' = "reading"
            /\ UNCHANGED <<failed_reads, consecutive_failures, last_timestamp,
                           last_reset_time, cursor_forced>>
       ELSE /\ ReadFailed
            /\ poll_pc' = polling_loop_except("RedisClientError")
            /\ UNCHANGED <<xread_from, xread_mark>>
    /\ UNCHANGED <<stream, total_reads, filtered_reads, latest_redis_data,
                   latest_redis_timestamp, counts_data, iterations, delivered,
                   published, reader_view, counts_response, counts_call,
                   counts_result>>
    /\ UNCHANGED <<orchestration, now>>

\* the awaited xread ends: new data moves the position and resets the failure
\* counter, no data and a read over its budget return None, an error is
\* counted; then the connection is closed (awaited)
ReadEnd(behaviour) ==
    /\ poll_pc = "reading"
    /\ poll_pc' = "closing"
    /\ LET messages == xread(stream, xread_from, xread_mark)
           outcome  == read_outcome_of(behaviour, messages, last_timestamp)
       IN  /\ read_outcome' = outcome
           /\ IF read_raises(outcome)
              THEN /\ ReadFailed
                   /\ UNCHANGED <<counts_data, delivered>>
              ELSE IF outcome = "new_data"
              THEN /\ last_timestamp' = messages.id
                   /\ consecutive_failures' = 0
                   /\ counts_data' = messages
                   /\ delivered' = Append(delivered, messages.id)
                   /\ UNCHANGED <<failed_reads, last_reset_time,
                                  cursor_forced>>
              ELSE UNCHANGED <<failed_reads, consecutive_failures,
                               last_timestamp, last_reset_time, cursor_forced,
                               counts_data, delivered>>
    /\ UNCHANGED <<stream, total_reads, filtered_reads, latest_redis_data,
                   latest_redis_timestamp, xread_from, xread_mark, iterations,
                   published, reader_view, counts_response, counts_call,
                   counts_result, connection>>
    /\ UNCHANGED <<orchestration, now>>

\* the connection is closed and get_counts_data returns or raises;
\* get_formatted_counts filters and derives, the loop assigns latest_redis_data
IterationEnd ==
    /\ poll_pc = "closing"
    /\ connection' = close_connection(connection)
    /\ IF counts_data = None
       THEN /\ poll_pc' = IF read_outcome \in CountedFailures
                          THEN polling_loop_except("RedisClientError")
                          ELSE "sleeping"
            /\ UNCHANGED <<filtered_reads, latest_redis_data, read_outcome>>
       ELSE LET result == get_formatted_counts(counts_data) IN
            /\ filtered_reads' =
                    IF result.filtered THEN filtered_reads + 1
                    ELSE filtered_reads
            /\ IF result.raised
               THEN /\ poll_pc' = polling_loop_except("RedisClientError")
                    /\ read_outcome' = "format_error"
                    /\ UNCHANGED latest_redis_data
               ELSE IF result.value = None
               THEN /\ poll_pc' = "sleeping"
                    /\ UNCHANGED <<latest_redis_data, read_outcome>>
               ELSE /\ latest_redis_data' = result.value
                    /\ poll_pc' = "publish_time"
                    /\ UNCHANGED read_outcome
    /\ UNCHANGED <<stream, last_timestamp, consecutive_failures, failed_reads,
                   total_reads, last_reset_time, latest_redis_timestamp,
                   xread_from, xread_mark, counts_data, iterations,
                   delivered, cursor_forced, published,
                   reader_view, counts_response, counts_call, counts_result>>
    /\ UNCHANGED <<orchestration, now>>

\* latest_redis_timestamp = datetime.now(), then the loop sleeps
PublishTime ==
    /\ poll_pc = "publish_time"
    /\ latest_redis_timestamp' = <<now>>
    /\ published' = published \cup
                        {[data |-> latest_redis_data, timestamp |-> <<now>>]}
    /\ poll_pc' = "sleeping"
    /\ UNCHANGED <<stream, last_timestamp, consecutive_failures, failed_reads,
                   total_reads, filtered_reads, last_reset_time,
                   latest_redis_data, xread_from, xread_mark, counts_data,
                   iterations, read_outcome, delivered, cursor_forced,
                   reader_view, counts_response, counts_call, counts_result,
                   connection>>
    /\ UNCHANGED <<orchestration, now>>

\* the producer appends an entry to the stream
Produce(kind) ==
    /\ Len(stream) < MaxEntries
    /\ stream' = Append(stream, Entry(Len(stream) + 1, kind))
    /\ UNCHANGED <<last_timestamp, consecutive_failures, failed_reads,
                   total_reads, filtered_reads, last_reset_time,
                   latest_redis_data, latest_redis_timestamp, poll_pc,
                   xread_from, xread_mark, counts_data, iterations,
                   read_outcome, delivered, cursor_forced, published,
                   reader_view, counts_response, counts_call, counts_result,
                   connection>>
    /\ UNCHANGED <<orchestration, now>>

\* GET /redis/counts, served while the polling loop is suspended
ReaderGet ==
    /\ ~holds_event_loop(poll_pc)
    /\ reader_view' = [data |-> latest_redis_data,
                       timestamp |-> latest_redis_timestamp, at |-> now]
    /\ counts_response' = get_redis_counts(latest_redis_data,
                                           latest_redis_timestamp, now)
    /\ UNCHANGED <<stream, last_timestamp, consecutive_failures, failed_reads,
                   total_reads, filtered_reads, last_reset_time,
                   latest_redis_data, latest_redis_timestamp, poll_pc,
                   xread_from, xread_mark, counts_data, iterations,
                   read_outcome, delivered, cursor_forced, published,
                   counts_call, counts_result, connection>>
    /\ UNCHANGED <<orchestration, now>>

\* POST /redis/debug/reset-position
ManualReset(position) ==
    /\ ~holds_event_loop(poll_pc)
    /\ last_timestamp' = position
    /\ cursor_forced' = TRUE
    /\ UNCHANGED <<stream, consecutive_failures, failed_reads, total_reads,
                   filtered_reads, last_reset_time, latest_redis_data,
                   latest_redis_timestamp, poll_pc, xread_from, xread_mark,
                   counts_data, iterations, read_outcome, delivered,
                   published, reader_view, counts_response, counts_call,
                   counts_result, connection>>
    /\ UNCHANGED <<orchestration, now>>

\* a second passes
Second ==
    /\ ~holds_event_loop(poll_pc)
    /\ now < BootTime + MaxClock * USec
    /\ now' = now + USec
    /\ UNCHANGED telemetry
    /\ UNCHANGED orchestration

NextTelemetry ==
    \/ PollStart
    \/ Connect("connected")
    \/ ReadEnd("answer")
    \/ IterationEnd
    \/ PublishTime
    \/ \E kind \in EntryKinds : Produce(kind)
    \/ ReaderGet
    \/ Second

SpecTelemetry == InitTelemetry /\ [][NextTelemetry]_vars

NextRecovery ==
    \/ PollStart
    \/ \E behaviour \in ConnectBehaviours : Connect(behaviour)
    \/ \E behaviour \in ReadBehaviours : ReadEnd(behaviour)
    \/ IterationEnd
    \/ PublishTime
    \/ Produce("trimmed")
    \/ Second

SpecRecovery == InitTelemetry /\ [][NextRecovery]_vars

\* what asyncio guarantees to the polling task: its sleep ends, each awaited
\* call returns or raises, the task is resumed; and time passes
FairnessRecovery ==
    /\ WF_vars(PollStart)
    /\ WF_vars(\E behaviour \in ConnectBehaviours : Connect(behaviour))
    /\ WF_vars(\E behaviour \in ReadBehaviours : ReadEnd(behaviour))
    /\ WF_vars(IterationEnd)
    /\ WF_vars(PublishTime)
    /\ WF_vars(Second)

FairSpecRecovery == InitTelemetry /\ [][NextRecovery]_vars /\ FairnessRecovery

\* a healthy server whose producer writes every form of the isTrim field
NextFilter ==
    \/ PollStart
    \/ Connect("connected")
    \/ ReadEnd("answer")
    \/ IterationEnd
    \/ PublishTime
    \/ \E kind \in FalsyKinds \cup {"trimmed"} : Produce(kind)

SpecFilter == InitTelemetry /\ [][NextFilter]_vars

\* the consumer with failing reads and an operator who resets the position
NextCursor ==
    \/ PollStart
    \/ \E behaviour \in ConnectBehaviours : Connect(behaviour)
    \/ \E behaviour \in ReadBehaviours : ReadEnd(behaviour)
    \/ IterationEnd
    \/ PublishTime
    \/ Produce("trimmed")
    \/ \E position \in {LAST_TIMESTAMP, Latest} : ManualReset(position)

SpecCursor == InitTelemetry /\ [][NextCursor]_vars

\* a healthy server and a producer of trimmed entries: no read fails
NextHealthy ==
    \/ PollStart
    \/ Connect("connected")
    \/ ReadEnd("answer")
    \/ IterationEnd
    \/ PublishTime
    \/ Produce("trimmed")

\* the polling task is resumed after its sleep and after each awaited call,
\* and the producer keeps appending
FairnessHealthy ==
    /\ WF_vars(PollStart)
    /\ WF_vars(Connect("connected"))
    /\ WF_vars(ReadEnd("answer"))
    /\ WF_vars(IterationEnd)
    /\ WF_vars(PublishTime)
    /\ WF_vars(Produce("trimmed"))

FairSpecHealthy == InitTelemetry /\ [][NextHealthy]_vars /\ FairnessHealthy

\* the consumer with failing reads, a producer of trimmed and untrimmed
\* entries, and an operator who resets the position
NextCounters ==
    \/ PollStart
    \/ \E behaviour \in ConnectBehaviours : Connect(behaviour)
    \/ \E behaviour \in ReadBehaviours : ReadEnd(behaviour)
    \/ IterationEnd
    \/ PublishTime
    \/ \E kind \in {"trimmed", "untrimmed"} : Produce(kind)
    \/ \E position \in {LAST_TIMESTAMP, Latest} : ManualReset(position)

SpecCounters == InitTelemetry /\ [][NextCounters]_vars

(* ------------------------------ shutdown ------------------------------ *)
\* lifespan after its yield: "redis_polling_task.cancel()" and
\* "await redis_polling_task", unless the task is done already
ShutdownCancel ==
    /\ lifespan_pc = "serving"
    /\ cur = 0
    /\ ~holds_event_loop(poll_pc)
    /\ lifespan_pc' = "awaiting_polling_task"
    /\ poll_pc' = IF poll_pc = "ended" THEN poll_pc
                  ELSE polling_loop_except("CancelledError")
    /\ connection' = cancelled_connection(poll_pc, connection)
    /\ UNCHANGED <<stream, last_timestamp, consecutive_failures, failed_reads,
                   total_reads, filtered_reads, last_reset_time,
                   latest_redis_data, latest_redis_timestamp, xread_from,
                   xread_mark, counts_data, iterations, read_outcome,
                   delivered, cursor_forced, published, reader_view,
                   counts_response, counts_call, counts_result>>
    /\ UNCHANGED <<operation_status, pc, request, operation_info, exc,
                   escaping, task_exception, not_found, cur, now, queue,
                   running_calls, hung, future, pool_broken, command_history,
                   response, log, worker_call, worker_result, gc_before,
                   history_file, history_calls>>

\* the polling task has ended: redis_client.stop(), then
\* process_executor.shutdown(wait=True, cancel_futures=True) cancels the
\* calls no worker has taken and waits, holding the event loop
ShutdownExecutor ==
    /\ lifespan_pc = "awaiting_polling_task"
    /\ cur = 0
    /\ poll_pc = "ended"
    /\ lifespan_pc' = "executor_shutdown"
    /\ queue' = <<>>
    /\ future' = [j \in DynIds |->
                    IF \E k \in DOMAIN queue : queue[k] = j
                    THEN [state |-> "cancelled"]
                    ELSE future[j]]
    /\ UNCHANGED <<operation_status, pc, request, operation_info, exc,
                   escaping, task_exception, not_found, cur, now,
                   running_calls, hung, pool_broken, command_history,
                   response, log, worker_call, worker_result, gc_before,
                   history_file, history_calls>>
    /\ UNCHANGED telemetry

\* shutdown(wait=True) returns once no call is running in a worker
ShutdownJoined ==
    /\ lifespan_pc = "executor_shutdown"
    /\ running_calls = {}
    /\ lifespan_pc' = "completed"
    /\ UNCHANGED <<operation_status, pc, request, operation_info, exc,
                   escaping, task_exception, not_found, cur, now, queue,
                   running_calls, hung, future, pool_broken, command_history,
                   response, log, worker_call, worker_result, gc_before,
                   history_file, history_calls>>
    /\ UNCHANGED telemetry

\* the event loop runs tasks: not while shutdown() holds it, not after the end
LoopRuns == lifespan_pc \in {"serving", "awaiting_polling_task"}

\* the service from start-up to the end of its shutdown: requests while it
\* serves, tasks while the loop runs, worker processes at any time
NextLifespan ==
    \/ /\ lifespan_pc = "serving"
       /\ \E i \in DynIds, req \in Requests : Dispatch(i, req)
    \/ /\ LoopRuns
       /\ \/ \E i \in DynIds : TaskStart(i)
          \/ \E i \in DynIds : TaskResume(i)
          \/ \E i \in DynIds, outcome \in HistoryOutcomes :
                HistoryOk(i, outcome)
          \/ \E i \in DynIds : ExceptZMQ(i)
          \/ \E i \in DynIds : ExceptUnexpected(i)
          \/ \E i \in DynIds, outcome \in HistoryOutcomes :
                HistoryErr(i, outcome)
          \/ \E i \in DynIds : Cleanup(i)
    \/ \E hangs \in BOOLEAN : WorkerStart(hangs)
    \/ \E i \in DynIds, env \in HardwareBehaviours : WorkerFinish(i, env)
    \/ \E i \in DynIds : WorkerCrash(i)
    \/ ShutdownCancel
    \/ ShutdownExecutor
    \/ ShutdownJoined

SpecLifespan == Init /\ [][NextLifespan]_vars

\* what asyncio, the pool and the server guarantee during shutdown: each
\* step of lifespan is taken when it can be, and a hardware call that is not
\* stuck returns
FairnessLifespan ==
    /\ WF_vars(ShutdownCancel)
    /\ WF_vars(ShutdownExecutor)
    /\ WF_vars(ShutdownJoined)
    /\ \A i \in DynIds :
          WF_vars(\E env \in HardwareBehaviours : WorkerFinish(i, env))
    /\ WF_vars(LoopRuns /\ \E i \in DynIds : RunToEnd(i))

FairSpecLifespan == Init /\ [][NextLifespan]_vars /\ FairnessLifespan

\* the polling loop with a server that fails, entries it cannot format, and
\* the shutdown of the service
NextPolling ==
    \/ PollStart
    \/ \E behaviour \in ConnectBehaviours : Connect(behaviour)
    \/ \E behaviour \in ReadBehaviours : ReadEnd(behaviour)
    \/ IterationEnd
    \/ PublishTime
    \/ \E kind \in {"trimmed", "malformed"} : Produce(kind)
    \/ ShutdownCancel
    \/ ShutdownExecutor
    \/ ShutdownJoined

SpecPolling == InitTelemetry /\ [][NextPolling]_vars

(* -------------- the derivation of the counts on its own --------------- *)
\* singles and coincidences given to the derivation
SinglesValues == 0..MaxCount \cup {16}
CountsInputs ==
    [As : SinglesValues, Bs : SinglesValues, C : 0..MaxCount]
        \cup {[As |-> 100, Bs |-> 200, C |-> 50]}

InitCounts ==
    \E c \in CountsInputs :
        /\ operation_status = <<>>
        /\ command_history = <<>>
        /\ TasksIdle
        /\ worker_call = None
        /\ worker_result = None
        /\ gc_before = None
        /\ history_file = <<>>
        /\ history_calls = 0
        /\ (ConsumerFresh \/ ConsumerRecovered)
        /\ counts_call = c
        /\ counts_result = None

\* get_formatted_counts is given a trimmed entry with these counters
FormatCounts ==
    /\ counts_call # None
    /\ counts_result = None
    /\ counts_result' = get_formatted_counts(
                            [id |-> 1, isTrim |-> "1", has_prefix |-> TRUE,
                             numeric |-> TRUE, VV |-> counts_call])
    /\ UNCHANGED <<stream, last_timestamp, consecutive_failures, failed_reads,
                   total_reads, filtered_reads, last_reset_time,
                   latest_redis_data, latest_redis_timestamp, poll_pc,
                   xread_from, xread_mark, counts_data, iterations,
                   read_outcome, delivered, cursor_forced, published,
                   reader_view, counts_response, counts_call, connection>>
    /\ UNCHANGED <<orchestration, now>>

SpecCounts == InitCounts /\ [][FormatCounts]_vars

(* ------------------------------- claims ------------------------------- *)
Terminal(reg) == {i \in DOMAIN reg : reg[i].status \in TerminalStatuses}
Active(reg) == {i \in DOMAIN reg : reg[i].status \in {"pending", "running"}}

\* the time an isoformat string stands for
fromisoformat(str) ==
    str[1] * USec + (IF Len(str) > 1 THEN str[2] ELSE 0)

\* some token of the detail occurs in the message
ContainsDetail(msg, detail) ==
    \E k \in DOMAIN msg, m \in DOMAIN detail : msg[k] = detail[m]

\* C1: the statuses the registry holds for an operation over time are a
\* prefix of pending, running, then exactly one of completed or error: an
\* entry is created pending, and the only changes of status are pending to
\* running, running to completed and running to error.
C1_StatusOrder ==
    [][\A i \in DOMAIN operation_status' :
          IF i \in DOMAIN operation_status
          THEN \/ operation_status'[i].status = operation_status[i].status
               \/ /\ operation_status[i].status = "pending"
                  /\ operation_status'[i].status = "running"
               \/ /\ operation_status[i].status = "running"
                  /\ operation_status'[i].status \in TerminalStatuses
          ELSE operation_status'[i].status = "pending"]_vars

\* C2: once an operation is completed or error, no later step changes its
\* status, result, error or completed_at (completed_at is written once).
C2_TerminalIsFinal ==
    [][\A i \in Terminal(operation_status) \cap DOMAIN operation_status' :
          /\ operation_status'[i].status = operation_status[i].status
          /\ operation_status'[i].result = operation_status[i].result
          /\ operation_status'[i].error = operation_status[i].error
          /\ operation_status'[i].completed_at = operation_status[i].completed_at]_vars

\* C3: pending or running: result and error are both null; completed:
\* result set, error null; error: error set, result null.
C3_ResultErrorMatchStatus ==
    \A i \in DOMAIN operation_status :
        LET op == operation_status[i] IN
        /\ op.status \in {"pending", "running"} =>
                op.result = None /\ op.error = None
        /\ op.status = "completed" => op.result # None /\ op.error = None
        /\ op.status = "error" => op.error # None /\ op.result = None

\* the case C4 is about: more than 50 entries, at least 26 of them terminal
C4_Case(reg) ==
    /\ Cardinality(DOMAIN reg) > 50
    /\ Cardinality(Terminal(reg)) >= 26

C5_InRegistryUntilTerminal ==
    /\ not_found = {}
    /\ \A i \in DynIds :
          /\ pc[i] \notin {"none", "done"} => i \in DOMAIN operation_status
          /\ pc[i] \in {"scheduled", "awaiting", "zmq"} =>
                operation_status[i].status \in {"pending", "running"}

\* a cleanup has removed old entries while an operation is pending or running
C5_Witness ==
    /\ \E k \in 1..49 : OldId(k) \notin DOMAIN operation_status
    /\ \E i \in DynIds :
          /\ pc[i] \in {"scheduled", "awaiting"}
          /\ i \in Active(operation_status)

\* C6: with at most one hardware call stuck for ever, an operation waiting
\* for the pool whose own call is not stuck reaches completed or error.
C6_NotStarvedByStuckCall ==
    \A i \in DynIds :
        (pc[i] = "awaiting" /\ i \notin hung)
            ~> \/ i \in Terminal(operation_status)
               \/ i \in hung
               \/ Cardinality(hung) > 1

\* one call is stuck on a worker and another operation has completed
C6_Witness ==
    \E i \in DynIds, j \in DynIds :
        /\ i \in hung
        /\ pc[i] = "awaiting"
        /\ j # i
        /\ pc[j] = "hist_ok"
        /\ operation_status[j].status = "completed"

IsMethodNotFound(r) ==
    /\ ~r.success
    /\ r.error_type = "AttributeError"
    /\ r.error[1] = "Method '"
    /\ r.error[3] = "' not found on ZMQ client: "

\* C8: execute_zmq_command returns a dictionary with a boolean success;
\* success=true carries result, success=false carries error and error_type;
\* a command name that is not a method of the client yields the "method not
\* found" failure.
C8_WorkerResult ==
    worker_result # None =>
        /\ worker_result.success \in BOOLEAN
        /\ worker_result.success => "result" \in DOMAIN worker_result
        /\ ~worker_result.success =>
              {"error", "error_type"} \subseteq DOMAIN worker_result
        /\ worker_call.command_name \notin ClientMethods =>
              IsMethodNotFound(worker_result)

\* C9: for an operation whose command succeeded, when the task reaches its
\* cleanup the operation is completed with its result and no error, and no
\* exception is leaving the task, whether add_command returned or raised.
C9_HistoryFailureIsHarmless ==
    \A i \in DynIds :
        (/\ pc[i] = "cleanup"
         /\ future[i].state = "result"
         /\ future[i].value.success) =>
            /\ operation_status[i].status = "completed"
            /\ operation_status[i].result = Str(future[i].value.result)
            /\ operation_status[i].error = None
            /\ i \notin escaping

\* C10: the error text the registry holds contains no part of the detail of
\* an unexpected exception (the details written to the log).
C10_GenericMessage ==
    \A i \in DOMAIN operation_status : \A detail \in log :
        operation_status[i].error # None =>
            ~ContainsDetail(operation_status[i].error, detail)

\* a step in which a read fails at transport level: the connection fails, the
\* stream call raises, or the stream call exceeds its budget
FailedReadStep ==
    /\ poll_pc \in {"connecting", "reading"}
    /\ read_outcome' \in TransportFailures

\* at least the cooldown interval has passed since the last recovery action,
\* or there was none
CooldownElapsed ==
    \/ last_reset_time = None
    \/ now - last_reset_time[1] >= CooldownSeconds * USec

\* C11: a failed read that is the 1st to 4th in a row leaves the position
\* unchanged; the 5th in a row, with the cooldown elapsed or no earlier
\* recovery, forces the position to "latest" and returns the counter to 0; a
\* failed read before the cooldown has elapsed does not reset the position.
C11_RecoveryTrigger ==
    [][FailedReadStep =>
        /\ consecutive_failures + 1 < max_consecutive_failures =>
               last_timestamp' = last_timestamp
        /\ (consecutive_failures + 1 = max_consecutive_failures
             /\ CooldownElapsed) =>
               (last_timestamp' = Latest /\ consecutive_failures' = 0)
        /\ ~CooldownElapsed =>
               (last_timestamp' = last_timestamp
                /\ last_reset_time' = last_reset_time)]_vars

\* C12: a failed read that leaves the counter at 5 or more, at least 300
\* seconds after the last recovery action, forces the position to "latest"
\* and resets the counter.
C12_RecoveryAfterCooldown ==
    [][(/\ FailedReadStep
        /\ read_outcome' \in CountedFailures
        /\ consecutive_failures + 1 >= max_consecutive_failures
        /\ last_reset_time # None
        /\ now - last_reset_time[1] >= CooldownSeconds * USec) =>
            (last_timestamp' = Latest /\ consecutive_failures' = 0)]_vars

\* C13: every read that fails at transport level, a stream call over its
\* budget included, adds one to failed_reads, counts as a consecutive failure
\* and has the recovery policy evaluated (the position is reset when due).
C13_FailuresAreCounted ==
    [][FailedReadStep =>
        /\ failed_reads' = failed_reads + 1
        /\ IF recovery_due(consecutive_failures + 1, last_reset_time, now)
           THEN last_timestamp' = Latest /\ consecutive_failures' = 0
           ELSE consecutive_failures' = consecutive_failures + 1]_vars

\* a step of the polling loop that is no automatic recovery and no read during
\* which the position was reset
UndisturbedReadStep ==
    /\ poll_pc' # poll_pc
    /\ last_reset_time' = last_reset_time
    /\ poll_pc = "reading" => xread_from = last_timestamp

\* the stream position a cursor value stands for: "latest" is the end of the
\* stream at the moment the read was issued
PositionOf(cursor) == IF cursor = Latest THEN xread_mark ELSE cursor

\* C14: a step of the polling loop without recovery and without reset either
\* leaves the position, or is a successful new-data read that moves it to a
\* strictly later position of the stream.
C14_CursorStrictlyIncreasing ==
    [][UndisturbedReadStep =>
        \/ last_timestamp' = last_timestamp
        \/ /\ poll_pc = "reading"
           /\ read_outcome' = "new_data"
           /\ last_timestamp' # Latest
           /\ last_timestamp' > PositionOf(last_timestamp)]_vars

\* reads have moved the position twice, with a failed read in the same run
C14_Witness ==
    /\ ~cursor_forced
    /\ delivered = <<1, 2>>
    /\ last_timestamp = 2
    /\ failed_reads > 0

\* the entries returned as new data are those up to the position, once each
\* and in the order of the stream
DeliveredUpToCursor ==
    /\ last_timestamp \in 0..Len(stream)
    /\ Len(delivered) = last_timestamp
    /\ \A k \in 1..Len(delivered) : delivered[k] = stream[k].id

\* C15: as long as no recovery and no reset has set the position, the entries
\* returned as new data are exactly the entries up to the position, once each
\* and in stream order; and every new-data read without recovery or reset
\* returns the first entry strictly after the position, never the entry at it.
C15_ExactlyOnceForward ==
    /\ [](~cursor_forced => DeliveredUpToCursor)
    /\ [][(UndisturbedReadStep /\ poll_pc = "reading"
                               /\ read_outcome' = "new_data") =>
            /\ counts_data' = stream[PositionOf(last_timestamp) + 1]
            /\ last_timestamp' = counts_data'.id
            /\ delivered' = Append(delivered, counts_data'.id)]_vars

\* both entries of the stream have been returned, the second after a read
\* that found nothing new
C15_Witness ==
    /\ ~cursor_forced
    /\ Len(stream) = 2
    /\ delivered = <<1, 2>>
    /\ poll_pc = "closing"
    /\ read_outcome = "new_data"
    /\ iterations > 2

\* the loop iteration that has read an entry as new data filters it and
\* assigns or keeps the snapshot
EntryRead == poll_pc = "closing" /\ counts_data # None /\ poll_pc' # poll_pc

\* C16 as stated: the iteration that reads an entry with isTrim = 0 leaves the
\* published snapshot alone; the iteration that reads an entry with isTrim = 1
\* and the prefix publishes the counts derived from it.
C16_TrimmedIsPublished ==
    [][EntryRead =>
        /\ counts_data.isTrim = "0" =>
              (latest_redis_data' = latest_redis_data /\ poll_pc' = "sleeping")
        /\ (counts_data.isTrim = "1" /\ counts_data.has_prefix) =>
              (/\ latest_redis_data' = counts_result_of(counts_data.VV)
               /\ poll_pc' = "publish_time")]_vars

\* C16, amended: the iteration that reads an entry with isTrim = 0 leaves the
\* published snapshot alone; the iteration that reads an entry with
\* isTrim = 1 and the prefix publishes the counts derived from it provided
\* its counters As, Bs and C convert to integers, and otherwise leaves the
\* snapshot alone.
C16_FilteredPublication ==
    [][EntryRead =>
        /\ counts_data.isTrim = "0" =>
              (latest_redis_data' = latest_redis_data /\ poll_pc' = "sleeping")
        /\ (counts_data.isTrim = "1" /\ counts_data.has_prefix
                                   /\ counts_data.numeric) =>
              (/\ latest_redis_data' = counts_result_of(counts_data.VV)
               /\ poll_pc' = "publish_time")
        /\ (counts_data.isTrim = "1" /\ counts_data.has_prefix
                                   /\ ~counts_data.numeric) =>
              (latest_redis_data' = latest_redis_data /\ poll_pc' = "sleeping")]_vars

\* an untrimmed entry was read and left the snapshot alone, then a trimmed
\* entry was read and its counts are the snapshot
C16_Witness ==
    /\ Len(stream) = 2
    /\ stream[1].isTrim = "0"
    /\ stream[2] = Entry(2, "trimmed")
    /\ delivered = <<1, 2>>
    /\ filtered_reads = 1
    /\ published = {[data |-> counts_result_of(CountsOf(2)),
                     timestamp |-> <<now>>]}
    /\ latest_redis_data = counts_result_of(CountsOf(2))

\* C17: a reader is given the cached snapshot exactly when one exists and is
\* less than 2 seconds old at the moment of the request; otherwise it is
\* answered, with status 200, success false and data null.
C17_FreshSnapshotOnly ==
    reader_view # None =>
        LET fresh == /\ reader_view.data # None
                     /\ reader_view.timestamp # None
                     /\ reader_view.at - reader_view.timestamp[1]
                            < FreshnessSeconds * USec
        IN  /\ counts_response.code = 200
            /\ counts_response.success = fresh
            /\ counts_response.data =
                   IF fresh THEN reader_view.data ELSE None

\* a reader asked for a snapshot that was exactly 2 seconds old
C17_Witness ==
    /\ reader_view # None
    /\ reader_view.data # None
    /\ reader_view.timestamp # None
    /\ reader_view.at - reader_view.timestamp[1] = FreshnessSeconds * USec
    /\ ~counts_response.success
    /\ counts_response.data = None

\* C18: what a reader sees is a pair the polling loop has published (data
\* with the timestamp assigned for it), or no snapshot at all.
C18_PublishIsAtomic ==
    reader_view # None =>
        \/ reader_view.data = None /\ reader_view.timestamp = None
        \/ [data |-> reader_view.data, timestamp |-> reader_view.timestamp]
              \in published

\* a reader saw the second snapshot, published a second after the first
C18_Witness ==
    /\ reader_view # None
    /\ Cardinality(published) = 2
    /\ \E p \in published : p.timestamp # <<reader_view.at>>
    /\ reader_view.data = counts_result_of(CountsOf(2))
    /\ reader_view.timestamp = <<reader_view.at>>

\* C19: for non-negative counters the derivation raises nothing; with
\* bob_singles = 0 alice_efficiency is 0, with alice_singles = 0
\* bob_efficiency is 0, and with either 0 joint_efficiency is 0.
C19_ZeroSingles ==
    counts_result # None =>
        /\ ~counts_result.raised
        /\ counts_result.value # None
        /\ counts_call.Bs = 0 => counts_result.value.alice_efficiency = 0
        /\ counts_call.As = 0 => counts_result.value.bob_efficiency = 0
        /\ (counts_call.As = 0 \/ counts_call.Bs = 0) =>
               counts_result.value.joint_efficiency = 0

\* counters with no singles for Alice, singles for Bob and coincidences
C19_Witness ==
    /\ counts_result # None
    /\ counts_call.As = 0
    /\ counts_call.Bs > 0
    /\ counts_call.C > 0
    /\ counts_result.value.alice_efficiency > 0
    /\ counts_result.value.bob_efficiency = 0
    /\ counts_result.value.joint_efficiency = 0

\* tenths is the value numerator / denominator rounded to one decimal: no
\* other tenth is nearer, and of two equally near tenths it is the even one
IsRoundedRatio(tenths, numerator, denominator) ==
    LET twice == 2 * (tenths * denominator - Tenths * numerator)
        gap   == IF twice < 0 THEN 0 - twice ELSE twice
    IN  /\ gap <= denominator
        /\ gap = denominator => tenths % 2 = 0

\* tenths is numerator / sqrt(product) rounded to one decimal
IsRoundedRatioSqrt(tenths, numerator, product) ==
    LET square == (2 * Tenths * numerator) * (2 * Tenths * numerator)
        below  == (2 * tenths - 1) * (2 * tenths - 1) * product
        above  == (2 * tenths + 1) * (2 * tenths + 1) * product
    IN  /\ tenths >= 0
        /\ tenths > 0 => below <= square
        /\ square <= above
        /\ (tenths > 0 /\ below = square) => tenths % 2 = 0
        /\ square = above => tenths % 2 = 0

\* C20: the result holds the counters it was given and, whatever the state of
\* the client, efficiencies that are the stated quotients rounded to one
\* decimal (checked for counters up to MaxCount, whose products stay within
\* 32 bits); for (100, 200, 50) they are 25.0, 50.0 and 35.4.
C20_EfficienciesArePure ==
    counts_result # None =>
        LET As == counts_call.As
            Bs == counts_call.Bs
            C  == counts_call.C
            v  == counts_result.value
        IN  /\ v.alice_singles = As /\ v.bob_singles = Bs /\ v.coincidences = C
            /\ (Bs > 0 /\ C <= MaxCount) =>
                   IsRoundedRatio(v.alice_efficiency, 100 * C, Bs)
            /\ (As > 0 /\ C <= MaxCount) =>
                   IsRoundedRatio(v.bob_efficiency, 100 * C, As)
            /\ (As > 0 /\ Bs > 0 /\ C <= MaxCount) =>
                   IsRoundedRatioSqrt(v.joint_efficiency, 100 * C, As * Bs)
            /\ (As = 100 /\ Bs = 200 /\ C = 50) =>
                   /\ v.alice_efficiency = 250
                   /\ v.bob_efficiency = 500
                   /\ v.joint_efficiency = 354

\* the example of the specification, derived by a client that has recovered
\* once, and with the same result as by a fresh client
C20_Witness ==
    /\ counts_result # None
    /\ counts_call = [As |-> 100, Bs |-> 200, C |-> 50]
    /\ last_timestamp = Latest
    /\ counts_result.value.joint_efficiency = 354

\* a step in which an iteration of the polling loop raises: the connection
\* fails, get_counts_data raises after an xread error, or formatting raises
IterationRaises ==
    \/ poll_pc = "connecting" /\ read_outcome' = "connect_fail"
    \/ /\ poll_pc = "closing" /\ poll_pc' # "closing"
       /\ read_outcome = "xread_error"
       /\ lifespan_pc' = lifespan_pc
    \/ poll_pc = "closing" /\ read_outcome' = "format_error"

\* C21: the polling loop has ended only if shutdown has cancelled it, and a
\* step in which an iteration raises leaves the loop asleep, from where the
\* next iteration starts.
C21_LoopSurvivesErrors ==
    /\ [](poll_pc = "ended" => lifespan_pc # "serving")
    /\ [][IterationRaises => poll_pc' = "sleeping"]_vars

\* an iteration has started after a failed read and after an entry that
\* could not be formatted
C21_Witness ==
    /\ lifespan_pc = "serving"
    /\ poll_pc = "connecting"
    /\ failed_reads > 0
    /\ \E k \in 1..Len(delivered) : ~stream[delivered[k]].numeric
    /\ latest_redis_data = None

\* a step of an iteration whose read found no new entry: the read itself and
\* the end of the iteration
EmptyReadStep ==
    \/ poll_pc = "reading" /\ read_outcome' = "no_data"
    \/ /\ poll_pc = "closing" /\ read_outcome = "no_data"
       /\ poll_pc' = "sleeping"

\* C22: a read that finds no new entry leaves the position, the published
\* snapshot and its timestamp, failed_reads and consecutive_failures as they
\* were and resets nothing, even when a recovery would be due.
C22_EmptyReadIsNoOp ==
    [][EmptyReadStep =>
        /\ last_timestamp' = last_timestamp
        /\ latest_redis_data' = latest_redis_data
        /\ latest_redis_timestamp' = latest_redis_timestamp
        /\ failed_reads' = failed_reads
        /\ consecutive_failures' = consecutive_failures
        /\ last_reset_time' = last_reset_time]_vars

\* an iteration found no new entry at a moment when five failures had
\* accumulated and the cooldown was over
C22_Witness ==
    /\ poll_pc = "sleeping"
    /\ read_outcome = "no_data"
    /\ recovery_due(consecutive_failures, last_reset_time, now)

\* the stream cursor and the health counters of the consumer
CursorAndCounters ==
    <<last_timestamp, consecutive_failures, failed_reads, total_reads,
      filtered_reads, last_reset_time>>

\* C23: every step that changes the stream cursor or a health counter is a
\* step of the polling task (it moves the position of redis_polling_loop).
C23_OnlyPollingTaskWrites ==
    [][CursorAndCounters' # CursorAndCounters => poll_pc' # poll_pc]_vars

\* C24: once the shutdown sequence has started it completes.
C24_ShutdownTerminates ==
    (lifespan_pc # "serving") ~> (lifespan_pc = "completed")

\* the loop is about to poll, has at least five iterations left, and no
\* cooldown stands in the way of a recovery
RecoveryWithinReach ==
    /\ poll_pc = "sleeping"
    /\ iterations + max_consecutive_failures <= MaxPolls
    /\ \/ last_reset_time = None
       \/ total_seconds_above(now - last_reset_time[1], CooldownSeconds)

\* a read has ended without failing
ReadSucceeded ==
    /\ poll_pc = "closing"
    /\ read_outcome \in {"no_data", "new_data", "same_position"}

PowerOutOfRange(power) == power.nan \/ power.tenths < 0 \/ power.tenths > 10

C26_OutOfRangePowerNeverSent ==
    worker_result # None =>
        /\ \A i \in 1..Len(worker_result.sent) :
              /\ worker_result.sent[i].cmd = "set_power"
              /\ ~PowerOutOfRange(worker_result.sent[i].params.power)
        /\ PowerOutOfRange(worker_call.power) =>
              /\ worker_result.sent = <<>>
              /\ worker_result.outcome.raised
              /\ worker_result.outcome.type = "ValueError"

C26_Witness ==
    /\ worker_result # None
    /\ worker_call.power = Float(10 + 1)
    /\ worker_result.sent = <<>>
    /\ worker_result.outcome.raised


\* C27: a calibrate or waveplate-movement request naming an invalid party is
\* rejected (HTTP 400) and creates no operation: a request naming an invalid
\* party is never answered with an operation identifier, and the registry
\* holds no operation created for it.
PartyEndpoints == {"calibrate", "waveplate_forward"}

NamesInvalidParty(req) ==
    req.endpoint \in PartyEndpoints /\ req.party \notin ValidParties

C27_InvalidPartyRejected ==
    \A i \in DynIds :
        (request[i] # None /\ NamesInvalidParty(request[i])) =>
            /\ response[i] = None
            /\ i \notin DOMAIN operation_status


\* C28: send_command given a response that is not valid JSON raises
\* ZMQClientError reporting "Failed to decode ZMQ response"; given a dict
\* with the key "error" it raises ZMQClientError reporting
\* "ZMQ command error: " followed by the value of the key.
NotValidJson(r) == r.text \in {"blank", "timeout"} \/ r.parses = "not_json"

ReportsInOrder(msg, first, second) ==
    \E k \in DOMAIN msg :
        /\ k + 1 \in DOMAIN msg
        /\ msg[k] = first
        /\ msg[k + 1] = second

C28_DecodeFailuresReported ==
    worker_result # None =>
        /\ (worker_call.response.text = "other"
              /\ NotValidJson(worker_call.response)) =>
              /\ worker_result.raised
              /\ worker_result.type = "ZMQClientError"
              /\ ContainsDetail(worker_result.msg,
                                <<"Failed to decode ZMQ response: ">>)
        /\ (worker_call.response.text = "other"
              /\ worker_call.response.parses = "dict"
              /\ worker_call.response.mentions_error) =>
              /\ worker_result.raised
              /\ worker_result.type = "ZMQClientError"
              /\ ReportsInOrder(worker_result.msg, "ZMQ command error: ", "msg")

\* the half of C28 about an application payload, on its own
C28_ErrorPayloadReported ==
    (/\ worker_result # None
     /\ worker_call.response.text = "other"
     /\ worker_call.response.parses = "dict"
     /\ worker_call.response.mentions_error) =>
        /\ worker_result.raised
        /\ worker_result.type = "ZMQClientError"
        /\ ReportsInOrder(worker_result.msg, "ZMQ command error: ", "msg")


\* C29: get_history returns the command history most recent first after any
\* sequence of add_command calls and restarts: for every limit, the entries
\* it returns are in descending order of their timestamps.
TimeOf(entry) ==
    entry.timestamp[1] * USec
        + (IF Len(entry.timestamp) > 1 THEN entry.timestamp[2] ELSE 0)

MostRecentFirst(history) ==
    \A i, j \in 1..Len(history) :
        i < j => TimeOf(history[i]) >= TimeOf(history[j])

HistoryLimits == {None} \cup {<<n>> : n \in 0..(MaxOldLines + MaxAdds)}

C29_HistoryMostRecentFirst ==
    \A limit \in HistoryLimits :
        MostRecentFirst(get_history(command_history, limit))


RunningOperations(reg) == {i \in DOMAIN reg : reg[i].status = "running"}

C31_RunningWithinPool ==
    Cardinality(RunningOperations(operation_status)) <= max_workers


\* C32: when the command name does not resolve to a method of the transport
\* client, the error the operation ends with is the programming-error
\* message ("Unexpected error: ..."), not a hardware/transport failure
\* ("ZMQ Error: ...").
C32_UnknownCommandIsProgrammingError ==
    (/\ worker_result # None
     /\ worker_call.command_name \in UnknownNames
     /\ worker_call.env # "connect_fail") =>
        /\ operation_error(worker_result) # None
        /\ Head(operation_error(worker_result)) = "Unexpected error: "
        /\ ~ContainsDetail(operation_error(worker_result), <<"ZMQ Error: ">>)


\* C33: the iteration that has read an entry whose isTrim field is falsy (0,
\* false, null, empty or missing) discards it as filtered: it publishes no
\* snapshot, filtered_reads grows by exactly 1, and failed_reads and
\* consecutive_failures do not grow.
FalsyIsTrim == {isTrim_of(kind) : kind \in FalsyKinds}

C33_FalsyIsFiltered ==
    [][(EntryRead /\ counts_data.isTrim \in FalsyIsTrim) =>
          /\ latest_redis_data' = latest_redis_data
          /\ poll_pc' = "sleeping"
          /\ published' = published
          /\ filtered_reads' = filtered_reads + 1
          /\ failed_reads' <= failed_reads
          /\ consecutive_failures' <= consecutive_failures]_vars

\* C33 for the values the filter compares equal to 0: the number 0, false,
\* and a missing field
C33_ZeroIsFiltered ==
    [][(EntryRead /\ is_trim_zero(counts_data.isTrim)) =>
          /\ latest_redis_data' = latest_redis_data
          /\ poll_pc' = "sleeping"
          /\ published' = published
          /\ filtered_reads' = filtered_reads + 1
          /\ failed_reads' <= failed_reads
          /\ consecutive_failures' <= consecutive_failures]_vars


\* C34: in every state in which no dispatch task is between storing its
\* terminal status and finishing its cleanup, the registry holds at most 50
\* terminal entries.
BeforeItsCleanup(i) ==
    /\ pc[i] \in {"hist_ok", "zmq", "exc", "hist_err", "cleanup"}
    /\ i \in Terminal(operation_status)

C34_TerminalEntriesBounded ==
    (\A i \in DynIds : ~BeforeItsCleanup(i)) =>
        Cardinality(Terminal(operation_status)) <= CleanupThreshold

\* the registry was full, a task has ended and its cleanup has cut the
\* terminal entries down to the 25 it keeps
C34_Witness ==
    /\ \A i \in DynIds : ~BeforeItsCleanup(i)
    /\ \E i \in DynIds : pc[i] = "done"
    /\ Cardinality(Terminal(operation_status)) = KeepCompleted
    /\ Cardinality(DOMAIN operation_status) > KeepCompleted


\* C35: any two automatic cursor resets are more than 300 seconds apart, and
\* a failed read that the cooldown refuses a reset neither moves the cursor
\* nor returns consecutive_failures to 0.
WithinCooldown ==
    /\ last_reset_time # None
    /\ now - last_reset_time[1] <= CooldownSeconds * USec

C35_RecoveryIsRateLimited ==
    [][/\ (last_reset_time # None /\ last_reset_time' # last_reset_time) =>
             last_reset_time'[1] - last_reset_time[1] > CooldownSeconds * USec
       /\ (FailedReadStep /\ WithinCooldown) =>
             /\ last_reset_time' = last_reset_time
             /\ last_timestamp' = last_timestamp
             /\ consecutive_failures' >= consecutive_failures
             /\ read_outcome' \in CountedFailures =>
                    consecutive_failures' = consecutive_failures + 1]_vars

\* a second automatic reset has happened, 301 seconds after the first, and
\* before it a fifth failure in a row was refused a reset by the cooldown
C35_Witness ==
    /\ last_reset_time # None
    /\ last_reset_time[1] - RecoveredAt > CooldownSeconds * USec
    /\ last_timestamp = Latest
    /\ consecutive_failures = 0
    /\ failed_reads > 2 * max_consecutive_failures


\* C36: a manual reset takes effect for the next read also when a read was
\* in flight at the moment of the reset: the completion of a read that was
\* issued from another position than the one the cursor holds now (the
\* cursor was reset while the read was suspended) leaves the cursor alone.
InFlightReadEnds == poll_pc = "reading" /\ poll_pc' = "closing"

C36_ResetSurvivesInFlightRead ==
    [][(InFlightReadEnds /\ last_timestamp # xread_from) =>
          last_timestamp' = last_timestamp]_vars


\* C37: once the cursor is at "latest", with a stream that keeps receiving
\* trimmed entries and reads that do not fail, the consumer eventually reads
\* a new entry: the cursor moves to a concrete position and a snapshot is
\* published.
LatestWithRoom ==
    /\ last_timestamp = Latest
    /\ poll_pc = "sleeping"
    /\ iterations < MaxPolls
    /\ Len(stream) < MaxEntries

RecordOf(entry) ==
    [command  |-> entry.command,
     response |-> IF entry.status = "error" THEN entry.error ELSE entry.result,
     isError  |-> entry.status = "error"]

HistoryStageEnds(i) == pc[i] # "cleanup" /\ pc'[i] = "cleanup"

C38_OneRecordPerTerminalOperation ==
    [][/\ \A i \in DynIds :
            (HistoryStageEnds(i) /\ i \in Terminal(operation_status)) =>
                /\ Len(command_history') = Len(command_history) + 1
                /\ Tail(command_history') = command_history
                /\ LET record == Head(command_history') IN
                   [command  |-> record.command,
                    response |-> record.response,
                    isError  |-> record.isError] = RecordOf(operation_status[i])
       /\ (\A i \in DynIds : ~HistoryStageEnds(i)) =>
                command_history' = command_history]_vars


\* C39: every Redis connection created for a stream read is closed before
\* get_counts_data returns or raises: once the read of an iteration is over,
\* the connection made for it is not left open or abandoned unclosed.
InGetCountsData == poll_pc \in {"connecting", "reading", "closing"}

C39_ConnectionsAreClosed ==
    ~InGetCountsData => connection \in {"none", "closed"}

\* the paths that bind the connection do close it: after a read that got a
\* connection (new data, no data, read over its budget, xread error) the
\* connection is closed when get_counts_data is left.
C39_BoundConnectionsAreClosed ==
    (~InGetCountsData /\ read_outcome # "connect_fail") =>
        connection \in {"none", "closed"}


\* C40: consecutive_failures counts the reads that raised a transport error
\* since the client was created, the last new-data read or the last automatic
\* recovery: such a read adds one, a new-data read and a recovery set it to
\* zero, and no other step (a read without data, the filtering and formatting
\* of an entry, a manual reset) changes it; failed_reads never exceeds
\* total_reads.
TransportErrorRead ==
    \/ poll_pc = "connecting" /\ read_outcome' = "connect_fail"
    \/ poll_pc = "reading" /\ read_outcome' = "xread_error"

NewDataRead == poll_pc = "reading" /\ read_outcome' = "new_data"

AutomaticRecovery == TransportErrorRead /\ last_reset_time' # last_reset_time

C40_FailureCounters ==
    /\ consecutive_failures = 0
    /\ [](failed_reads <= total_reads)
    /\ [][consecutive_failures' =
            IF NewDataRead \/ AutomaticRecovery THEN 0
            ELSE IF TransportErrorRead THEN consecutive_failures + 1
            ELSE consecutive_failures]_vars

\* after a filtered new-data read and a manual reset, a failed read has been
\* counted once, and an earlier failure is no longer counted
C40_Witness ==
    /\ consecutive_failures = 1
    /\ failed_reads >= 2
    /\ filtered_reads >= 1
    /\ cursor_forced
    /\ last_reset_time = None
    /\ read_outcome = "no_data"

====
